---- MODULE Spec2Model ----
(***************************************************************************)
(* The resource registry of Sigil (BookManipulation/FolderKeeper.cpp):     *)
(* the identifier index m_Resources, the book-path index m_Path2Resource,  *)
(* the unique-filename generator, the short-path-name resolver and the     *)
(* operations that add, rename, move and remove resources.                 *)
(*                                                                         *)
(* A file name and a short path name are strings, modelled as sequences of *)
(* one-character strings.  A book path "a/b/c.css" is the sequence of its  *)
(* '/'-separated segments, each segment a string.                          *)
(***************************************************************************)
EXTENDS Integers, Sequences, FiniteSets, TLC

VARIABLES
    objs,                    \* the live Resource objects: identifier -> fields
    m_Resources,             \* QHash<QString, Resource*>: the registered identifiers
    m_Path2Resource,         \* QHash<QString, Resource*>: book path -> identifier
    m_OPF,                   \* OPFResource* (NULL = 0)
    m_NCX,                   \* NCXResource* (NULL = 0)
    m_GrpToFold,             \* QHash<QString, QStringList>: group -> folders
    m_FileIconCache,         \* the media types with a cached icon
    watched,                 \* m_FSWatcher->files()
    m_SuspendedWatchedFiles, \* QStringList
    disk,                    \* the book paths of the files in the main folder
    nextId,                  \* the next fresh resource identifier
    last,                    \* history: the last completed call, its arguments and signals
    m_AccessMutex,           \* QMutex: 0 when free, else the thread holding it
    th,                      \* per worker thread: position in AddContentFileToFolder and its locals
    call                     \* a call of a pure function: arguments, position, result

vars == <<objs, m_Resources, m_Path2Resource, m_OPF, m_NCX, m_GrpToFold,
          m_FileIconCache, watched, m_SuspendedWatchedFiles, disk, nextId,
          last, m_AccessMutex, th, call>>

registryVars == <<objs, m_Resources, m_Path2Resource, m_OPF, m_NCX, m_GrpToFold,
                  m_FileIconCache, watched, m_SuspendedWatchedFiles, disk, nextId>>

NULL == 0

(***************************************************************************)
(* Strings                                                                 *)
(***************************************************************************)
DigitChars == <<"0", "1", "2", "3", "4", "5", "6", "7", "8", "9">>

UpperChars == <<"A", "B", "C", "D", "E", "F", "G", "H", "I", "J", "K", "L", "M",
                "N", "O", "P", "Q", "R", "S", "T", "U", "V", "W", "X", "Y", "Z">>

LowerChars == <<"a", "b", "c", "d", "e", "f", "g", "h", "i", "j", "k", "l", "m",
                "n", "o", "p", "q", "r", "s", "t", "u", "v", "w", "x", "y", "z">>

IsDigit(c) == \E i \in 1..10 : DigitChars[i] = c

DigitVal(c) == (CHOOSE i \in 1..10 : DigitChars[i] = c) - 1

toLowerChar(c) ==
    IF \E i \in 1..26 : UpperChars[i] = c
    THEN LowerChars[CHOOSE i \in 1..26 : UpperChars[i] = c]
    ELSE c

\* QString::toLower
toLower(s) == [i \in 1..Len(s) |-> toLowerChar(s[i])]

\* QString::compare(a, b, Qt::CaseInsensitive) == 0
EqualsNoCase(a, b) == toLower(a) = toLower(b)

\* QStringList::contains(str, Qt::CaseInsensitive)
ContainsNoCase(list, str) == \E i \in 1..Len(list) : EqualsNoCase(list[i], str)

\* QString::indexOf(c): the first position of c, 0 when absent
IndexOfChar(s, c) ==
    IF \E i \in 1..Len(s) : s[i] = c
    THEN CHOOSE i \in 1..Len(s) : s[i] = c /\ \A j \in 1..(i - 1) : s[j] # c
    ELSE 0

\* QFileInfo::baseName: the characters up to, not including, the first '.'
baseName(fn) ==
    LET dot == IndexOfChar(fn, ".")
    IN  IF dot = 0 THEN fn ELSE SubSeq(fn, 1, dot - 1)

\* QFileInfo::completeSuffix: the characters after the first '.'
completeSuffix(fn) ==
    LET dot == IndexOfChar(fn, ".")
    IN  IF dot = 0 THEN <<>> ELSE SubSeq(fn, dot + 1, Len(fn))

\* QFileInfo::suffix: the characters after the last '.'
RECURSIVE suffix(_)
suffix(fn) ==
    LET dot == IndexOfChar(fn, ".")
    IN  IF dot = 0 THEN <<>>
        ELSE LET rest == SubSeq(fn, dot + 1, Len(fn))
             IN  IF IndexOfChar(rest, ".") = 0 THEN rest ELSE suffix(rest)

\* QString::remove(QRegularExpression("\\d+$"))
RECURSIVE RemoveTrailingDigits(_)
RemoveTrailingDigits(s) ==
    IF s # <<>> /\ IsDigit(s[Len(s)])
    THEN RemoveTrailingDigits(SubSeq(s, 1, Len(s) - 1))
    ELSE s

(***************************************************************************)
(* int arithmetic of the unique-name generator                             *)
(***************************************************************************)
IntMax == 2147483647

IntMin == (0 - IntMax) - 1

IntMinChars == <<"-", "2", "1", "4", "7", "4", "8", "3", "6", "4", "8">>

\* QString::toInt on a string of digits: fails on the empty string and on a
\* value that does not fit an int
RECURSIVE ParseDigits(_, _)
ParseDigits(ds, acc) ==
    IF ds = <<>> THEN acc
    ELSE LET d == DigitVal(Head(ds))
         IN  IF acc > (IntMax - d) \div 10 THEN -1
             ELSE ParseDigits(Tail(ds), acc * 10 + d)

toInt(ds) ==
    LET v == IF ds = <<>> THEN -1 ELSE ParseDigits(ds, 0)
    IN  [ok |-> v # -1, value |-> IF v = -1 THEN 0 ELSE v]

RECURSIVE NumberChars(_)
NumberChars(n) ==
    IF n < 10 THEN <<DigitChars[n + 1]>>
    ELSE NumberChars(n \div 10) \o <<DigitChars[(n % 10) + 1]>>

RECURSIVE PadLeft(_, _)
PadLeft(s, width) == IF Len(s) >= width THEN s ELSE PadLeft(<<"0">> \o s, width)

\* QString("%1").arg(n, fieldWidth, 10, QChar('0'))
ArgInt(n, fieldWidth) ==
    IF n = IntMin THEN IntMinChars ELSE PadLeft(NumberChars(n), fieldWidth)

\* max_num + 1 on an int.  At INT_MAX the addition is a signed overflow, which
\* is undefined; the builds compute it in a register and it wraps.
IncrementOutcomes(n) == IF n = IntMax THEN {IntMin} ELSE {n + 1}

(***************************************************************************)
(* FolderKeeper::GetUniqueFilenameVersion                                  *)
(***************************************************************************)
\* filename_search.match(existing_file): "^" escape(name_prefix) "(\\d*)"
\* ["\\." escape(extension)] "$", case-insensitive; captured(1) when it matches
FilenameSearch(name_prefix, extension, existing_file) ==
    LET e    == toLower(existing_file)
        p    == toLower(name_prefix)
        t    == IF extension # <<>> THEN <<".">> \o toLower(extension) ELSE <<>>
        mid  == Len(e) - Len(p) - Len(t)
        cap  == SubSeq(e, Len(p) + 1, Len(p) + mid)
        has  == /\ mid >= 0
                /\ SubSeq(e, 1, Len(p)) = p
                /\ SubSeq(e, Len(e) - Len(t) + 1, Len(e)) = t
                /\ \A i \in 1..Len(cap) : IsDigit(cap[i])
    IN  [hasMatch |-> has, captured |-> IF has THEN cap ELSE <<>>]

\* the foreach over the existing file names, in the order of the list
RECURSIVE ScanSuffixes(_, _, _, _)
ScanSuffixes(name_prefix, extension, filenames, acc) ==
    IF filenames = <<>> THEN acc
    ELSE LET match == FilenameSearch(name_prefix, extension, Head(filenames))
             conv  == toInt(match.captured)
             next  == IF match.hasMatch /\ conv.ok /\ conv.value > acc.max_num
                      THEN [max_num |-> conv.value, max_num_length |-> Len(match.captured)]
                      ELSE acc
         IN  ScanSuffixes(name_prefix, extension, Tail(filenames), next)

GetUniqueFilenameVersion_AlwaysNumbered(filename, filenames) ==
    LET name_prefix == RemoveTrailingDigits(baseName(filename))
        extension   == completeSuffix(filename)
        scan  == ScanSuffixes(name_prefix, extension, filenames,
                              [max_num |-> -1, max_num_length |-> -1])
        found == IF scan.max_num = -1
                 THEN [max_num |-> 0, max_num_length |-> 4]
                 ELSE scan
    IN  { name_prefix \o ArgInt(n, found.max_num_length)
            \o (IF extension # <<>> THEN <<".">> \o extension ELSE <<>>)
          : n \in IncrementOutcomes(found.max_num) }

\* the names the call can return, given GetAllFilenames() in iteration order
GetUniqueFilenameVersion(filename, filenames) ==
    IF ~ContainsNoCase(filenames, filename) THEN {filename}
    ELSE LET name_prefix == RemoveTrailingDigits(baseName(filename))
             extension   == completeSuffix(filename)
             scan  == ScanSuffixes(name_prefix, extension, filenames,
                                   [max_num |-> -1, max_num_length |-> -1])
             found == IF scan.max_num = -1
                      THEN [max_num |-> 0, max_num_length |-> 4]
                      ELSE scan
         IN  { name_prefix \o ArgInt(n, found.max_num_length)
                 \o (IF extension # <<>> THEN <<".">> \o extension ELSE <<>>)
               : n \in IncrementOutcomes(found.max_num) }

(***************************************************************************)
(* Finite maps (QHash) and lists                                           *)
(***************************************************************************)
EmptyMap == [x \in {} |-> NULL]

\* QHash::insert / operator[] assignment
Put(f, k, v) == [x \in (DOMAIN f) \cup {k} |-> IF x = k THEN v ELSE f[x]]

\* QHash::remove
Remove(f, k) == [x \in (DOMAIN f) \ {k} |-> f[x]]

\* QHash::value(key, default)
Value(f, k, default) == IF k \in DOMAIN f THEN f[k] ELSE default

Range(s) == {s[i] : i \in 1..Len(s)}

\* the injective sequences over a set, up to a length
DistinctSeqs(S, n) ==
    UNION {{s \in [1..k -> S] : \A i, j \in 1..k : i # j => s[i] # s[j]} : k \in 0..n}

\* the elements of a set of integers in ascending order
RECURSIVE Ascending(_)
Ascending(S) ==
    IF S = {} THEN <<>>
    ELSE LET m == CHOOSE x \in S : \A y \in S : x <= y
         IN  <<m>> \o Ascending(S \ {m})

(***************************************************************************)
(* Book paths                                                              *)
(***************************************************************************)
\* QStringList::join('/')
RECURSIVE Join(_)
Join(pieces) ==
    IF pieces = <<>> THEN <<>>
    ELSE IF Len(pieces) = 1 THEN pieces[1]
    ELSE pieces[1] \o <<"/">> \o Join(Tail(pieces))

\* Resource::Filename: the last segment of the path
Filename(bookpath) == bookpath[Len(bookpath)]

\* Utility::startingDir: the folder of a book path, empty for a top-level file
startingDir(bookpath) == SubSeq(bookpath, 1, Len(bookpath) - 1)

(***************************************************************************)
(* FolderKeeper::buildShortName and FolderKeeper::updateShortPathNames     *)
(***************************************************************************)
buildShortName(bookpath, lvl) ==
    LET n == Len(bookpath)
    IN  IF lvl = 1 THEN bookpath[n]
        ELSE IF lvl >= n THEN <<"^">> \o Join(bookpath)
        ELSE Join(SubSeq(bookpath, n - lvl + 1, n))

\* the body both foreach loops share: give bkpath its name at level lvl and
\* record the name as a duplicate when another path already has it.
\* st = [BookToSPN, NameToBooks, DupSet]; DupSet is kept in insertion order.
AssignName(st, bkpath, lvl) ==
    LET aname == buildShortName(bkpath, lvl)
    IN  IF aname \in DOMAIN st.NameToBooks
        THEN [BookToSPN   |-> Put(st.BookToSPN, bkpath, aname),
              NameToBooks |-> Put(st.NameToBooks, aname,
                                  Append(st.NameToBooks[aname], bkpath)),
              DupSet      |-> IF aname \in Range(st.DupSet) THEN st.DupSet
                              ELSE Append(st.DupSet, aname)]
        ELSE [BookToSPN   |-> Put(st.BookToSPN, bkpath, aname),
              NameToBooks |-> Put(st.NameToBooks, aname, <<bkpath>>),
              DupSet      |-> st.DupSet]

RECURSIVE AssignNames(_, _, _)
AssignNames(st, bklst, lvl) ==
    IF bklst = <<>> THEN st
    ELSE AssignNames(AssignName(st, Head(bklst), lvl), Tail(bklst), lvl)

\* foreach(QString aname, todolst) of one round of the while loop
RECURSIVE WidenNames(_, _, _)
WidenNames(st, todolst, lvl) ==
    IF todolst = <<>> THEN st
    ELSE LET aname == Head(todolst)
             bklst == Value(st.NameToBooks, aname, <<>>)
             st1   == [st EXCEPT !.NameToBooks = Remove(st.NameToBooks, aname)]
         IN  WidenNames(AssignNames(st1, bklst, lvl), Tail(todolst), lvl)

MaxSegments(bookpaths) ==
    IF bookpaths = <<>> THEN 0
    ELSE LET i == CHOOSE i \in 1..Len(bookpaths) :
                      \A j \in 1..Len(bookpaths) : Len(bookpaths[j]) <= Len(bookpaths[i])
         IN  Len(bookpaths[i])

\* while(!todolst.isEmpty()).  A round at a level that has reached every
\* path's depth and reproduces the to-do list and the name table it started
\* from is repeated for ever: from then on buildShortName no longer depends
\* on the level.
RECURSIVE WidenLoop(_, _, _, _)
WidenLoop(st, todolst, lvl, depth) ==
    IF todolst = <<>> THEN [st |-> st, lvl |-> lvl, status |-> "done"]
    ELSE LET st1 == WidenNames([st EXCEPT !.DupSet = <<>>], todolst, lvl + 1)
         IN  IF lvl >= depth /\ lvl >= 2
                /\ Range(st1.DupSet) = Range(todolst)
                /\ DOMAIN st1.NameToBooks = DOMAIN st.NameToBooks
                /\ \A k \in DOMAIN st.NameToBooks :
                       Range(st1.NameToBooks[k]) = Range(st.NameToBooks[k])
             THEN [st |-> st1, lvl |-> lvl + 1, status |-> "loops"]
             ELSE WidenLoop(st1, st1.DupSet, lvl + 1, depth)

\* the short names updateShortPathNames computes for GetAllBookPaths() in
\* iteration order: BookToSPN before the '^' marker is stripped
ShortNameTable(bookpaths) ==
    LET st0 == AssignNames([BookToSPN |-> EmptyMap, NameToBooks |-> EmptyMap,
                            DupSet |-> <<>>], bookpaths, 1)
    IN  WidenLoop(st0, st0.DupSet, 1, MaxSegments(bookpaths))

\* if (shortname.startsWith('^')) shortname = shortname.remove(0,1)
StripMarker(shortname) ==
    IF shortname # <<>> /\ shortname[1] = "^" THEN Tail(shortname) ELSE shortname

(***************************************************************************)
(* Names of the model                                                      *)
(***************************************************************************)
sOEBPS  == <<"O", "E", "B", "P", "S">>
sText   == <<"T", "e", "x", "t">>
sStyles == <<"S", "t", "y", "l", "e", "s">>
sImages == <<"I", "m", "a", "g", "e", "s">>
sFonts  == <<"F", "o", "n", "t", "s">>
sAudio  == <<"A", "u", "d", "i", "o">>
sVideo  == <<"V", "i", "d", "e", "o">>
sMisc   == <<"M", "i", "s", "c">>
sMETAINF == <<"M", "E", "T", "A", "-", "I", "N", "F">>
sContentOpf == <<"c", "o", "n", "t", "e", "n", "t", ".", "o", "p", "f">>
sTocNcx == <<"t", "o", "c", ".", "n", "c", "x">>
sContainerXml == <<"c", "o", "n", "t", "a", "i", "n", "e", "r", ".", "x", "m", "l">>
sA == <<"a">>
sB == <<"b">>
sCcss == <<"c", ".", "c", "s", "s">>
sDcss == <<"d", ".", "c", "s", "s">>
sHiddenCcss == <<".", "c", ".", "c", "s", "s">>
sExml == <<"e", ".", "x", "m", "l">>
sCss == <<"c", "s", "s">>
sXml == <<"x", "m", "l">>
sXhtml == <<"x", "h", "t", "m", "l">>
sPng == <<"p", "n", "g">>

\* the folderpath argument's default "\\": use the group's default folder
UseDefaultFolder == << <<"\\">> >>

\* m_FullPathToMainFolder and the folder the imported files come from; the
\* META-INF branch of AddContentFileToFolder assumes roots of one length
RootChars(root) == IF root = "main" THEN <<"/", "m">> ELSE <<"/", "x">>

\* fullfilepath of a source file [root, path]
FullFilePath(src) == RootChars(src.root) \o <<"/">> \o Join(src.path)

\* QString::contains(QRegularExpression("META-INF"))
ContainsText(s, pat) ==
    \E i \in 1..(Len(s) - Len(pat) + 1) : SubSeq(s, i, i + Len(pat) - 1) = pat

ContainsFileExceptions(fullfilepath) == ContainsText(fullfilepath, sMETAINF)

(***************************************************************************)
(* MediaTypes: the static extension, media type and group tables           *)
(***************************************************************************)
GetMediaTypeFromExtension(extension, fallback) ==
    IF extension = sCss THEN "text/css"
    ELSE IF extension = sXml THEN "application/xml"
    ELSE IF extension = sXhtml THEN "application/xhtml+xml"
    ELSE IF extension = sPng THEN "image/png"
    ELSE fallback

GetGroupFromMediaType(mt, fallback) ==
    IF mt = "text/css" THEN "Styles"
    ELSE IF mt = "application/xml" THEN "Misc"
    ELSE IF mt = "application/oebps-package+xml" THEN "opf"
    ELSE IF mt = "application/x-dtbncx+xml" THEN "ncx"
    ELSE IF mt = "application/xhtml+xml" THEN "Text"
    ELSE IF mt = "image/png" THEN "Images"
    ELSE fallback

GetResourceDescFromMediaType(mt, fallback) ==
    IF mt = "text/css" THEN "CSSResource"
    ELSE IF mt = "application/xml" THEN "XMLResource"
    ELSE IF mt = "application/xhtml+xml" THEN "HTMLResource"
    ELSE IF mt = "image/png" THEN "ImageResource"
    ELSE fallback

(***************************************************************************)
(* FolderKeeper: classification and folders                                *)
(***************************************************************************)
DetermineFileGroup(filepath, mimetype) ==
    LET extension == toLower(suffix(Filename(filepath.path)))
        mt1 == IF mimetype = "" THEN GetMediaTypeFromExtension(extension, "") ELSE mimetype
        g1  == GetGroupFromMediaType(mt1, "")
        mt2 == GetMediaTypeFromExtension(extension, "")
        g2  == IF g1 = "" /\ mt2 # "" THEN GetGroupFromMediaType(mt2, "") ELSE g1
    IN  IF ContainsFileExceptions(FullFilePath(filepath)) THEN "other"
        ELSE IF mt1 = "" THEN "Misc"
        ELSE IF g2 = "" THEN "Misc"
        ELSE g2

\* FolderKeeper::CreateGroupToFoldersMap
CreateGroupToFoldersMap ==
    [g \in {"Text", "Styles", "Images", "Fonts", "Audio", "Video", "Misc",
            "ncx", "opf", "other"} |->
        CASE g = "Text"   -> << <<sOEBPS, sText>> >>
          [] g = "Styles" -> << <<sOEBPS, sStyles>> >>
          [] g = "Images" -> << <<sOEBPS, sImages>> >>
          [] g = "Fonts"  -> << <<sOEBPS, sFonts>> >>
          [] g = "Audio"  -> << <<sOEBPS, sAudio>> >>
          [] g = "Video"  -> << <<sOEBPS, sVideo>> >>
          [] g = "Misc"   -> << <<sOEBPS, sMisc>> >>
          [] g = "ncx"    -> << <<sOEBPS>> >>
          [] g = "opf"    -> << <<sOEBPS>> >>
          [] g = "other"  -> << <<>> >>]

GetFoldersForGroup(group) == Value(m_GrpToFold, group, << <<>> >>)

GetDefaultFolderForGroup(group) == GetFoldersForGroup(group)[1]

(***************************************************************************)
(* FolderKeeper: the indexes                                               *)
(***************************************************************************)
\* an iteration order of m_Resources.values()
ResourceOrder == Ascending(m_Resources)

GetAllFilenames == [i \in 1..Len(ResourceOrder) |-> Filename(objs[ResourceOrder[i]].path)]

GetAllBookPaths == [i \in 1..Len(ResourceOrder) |-> objs[ResourceOrder[i]].path]

\* the book paths of the registered resources
RegisteredPaths == {objs[i].path : i \in m_Resources}

GetResourceByBookPathNoThrow(bookpath) == Value(m_Path2Resource, bookpath, NULL)

\* threw: the call throws ResourceDoesNotExist
GetResourceByBookPath(bookpath) ==
    LET resource == Value(m_Path2Resource, bookpath, NULL)
    IN  [threw |-> resource = NULL, resource |-> resource]

(***************************************************************************)
(* The history variable last                                               *)
(***************************************************************************)
NoSource == [root |-> "", path |-> <<>>, exists |-> FALSE, readable |-> FALSE]

\* the watch set and the held-aside list a call found
NotWatching == [watched |-> {}, susp |-> <<>>]

NoCall ==
    [op |-> "", src |-> NoSource, mimetype |-> "", bookpath |-> <<>>,
     folderpath |-> <<>>, ids |-> <<>>, news |-> <<>>, oks |-> <<>>,
     result |-> "ok", emitted |-> <<>>, before |-> NotWatching, written |-> <<>>]

\* a signal emitted, or a call made on the package document or on a resource,
\* in the order the code makes them
Signal(sig, ids, olds) == [sig |-> sig, ids |-> ids, olds |-> olds]

\* the call returned, or threw an exception its caller catches
Running == last.result \in {"ok", "FileDoesNotExist"}

(***************************************************************************)
(* FolderKeeper::updateShortPathNames on the registry [objs, p2r]          *)
(***************************************************************************)
\* foreach(QString bookpath, bookpaths): set the short name of the resource
\* the path index gives for the path; GetResourceByBookPath throws when the
\* index has none
RECURSIVE SetShortPathNames(_, _, _, _)
SetShortPathNames(o, p2r, bookpaths, BookToSPN) ==
    IF bookpaths = <<>> THEN [objs |-> o, status |-> "ok"]
    ELSE LET bookpath == Head(bookpaths)
             resource == Value(p2r, bookpath, NULL)
         IN  IF resource = NULL \/ resource \notin DOMAIN o
             THEN [objs |-> o, status |-> "ResourceDoesNotExist"]
             ELSE SetShortPathNames(
                      [o EXCEPT ![resource].spn = StripMarker(BookToSPN[bookpath])],
                      p2r, Tail(bookpaths), BookToSPN)

updateShortPathNames_Skipped(o, reg, p2r) == [objs |-> o, status |-> "ok"]

updateShortPathNames(o, reg, p2r) ==
    LET order     == Ascending(reg)
        bookpaths == [i \in 1..Len(order) |-> o[order[i]].path]
        table     == ShortNameTable(bookpaths)
    IN  IF table.status = "loops" THEN [objs |-> o, status |-> "loops"]
        ELSE SetShortPathNames(o, p2r, bookpaths, table.st.BookToSPN)

(***************************************************************************)
(* Resource::RenameTo, Resource::MoveTo, Resource::Delete                  *)
(***************************************************************************)
\* Utility::RenameFile / Utility::SMoveFile: the file is moved unless it is
\* missing or a file already has the new path
CanMoveFile(d, oldpath, newpath) == oldpath \in d /\ newpath \notin d

\* the resource after a successful RenameTo or MoveTo
Relocated(o, id, newpath) ==
    [o EXCEPT ![id].path = newpath, ![id].spn = Filename(newpath)]

MovedFiles(d, oldpath, newpath) == (d \ {oldpath}) \cup {newpath}

(***************************************************************************)
(* FolderKeeper::ResourceRenamed, FolderKeeper::ResourceMoved: the index   *)
(***************************************************************************)
\* Resource *res = m_Path2Resource[book_path]; m_Path2Resource.remove(book_path);
\* m_Path2Resource[resource->GetRelativePath()] = res;
ResourceRenamed_KeepsOldPath(p2r, old_book_path, new_book_path) ==
    Put(p2r, new_book_path, Value(p2r, old_book_path, NULL))

ResourceRenamed(p2r, old_book_path, new_book_path) ==
    LET res == Value(p2r, old_book_path, NULL)
    IN  Put(Remove(p2r, old_book_path), new_book_path, res)

\* the loop body of BulkRenameResources and BulkMoveResources on success:
\* m_Path2Resource.remove(oldbookpath); m_Path2Resource[newbookpath] = rsc;
BulkIndexUpdate_KeepsOldPath(p2r, oldbookpath, newbookpath, rsc) ==
    Put(p2r, newbookpath, rsc)

BulkIndexUpdate(p2r, oldbookpath, newbookpath, rsc) ==
    Put(Remove(p2r, oldbookpath), newbookpath, rsc)

(***************************************************************************)
(* Bounds and the arguments the callers hand in                            *)
(***************************************************************************)
MaxResources == 3

MaxBulk == 2

OpfMediaType == "application/oebps-package+xml"

NcxMediaType == "application/x-dtbncx+xml"

BookPathPool == {<<sB, sCcss>>}

MetaInfPath == <<sMETAINF, sExml>>

RenamePool == {sDcss}

BulkRenamePool == {sCcss, sDcss}

FolderArgs == {UseDefaultFolder, <<sB>>}

\* files outside the main folder, and files unpacked into their place in it
Sources ==
    {[root |-> "ext", path |-> <<sCcss>>, exists |-> TRUE, readable |-> TRUE],
     [root |-> "ext", path |-> <<sCcss>>, exists |-> FALSE, readable |-> FALSE],
     [root |-> "ext", path |-> <<sHiddenCcss>>, exists |-> TRUE, readable |-> TRUE],
     [root |-> "main", path |-> MetaInfPath, exists |-> TRUE, readable |-> TRUE]}
    \cup {[root |-> "main", path |-> bp, exists |-> TRUE, readable |-> TRUE] : bp \in BookPathPool}

\* a file already in the main folder is added under the path it has
PlausibleAdd(src, bookpath) ==
    src.root = "main" =>
        \/ bookpath = src.path
        \/ bookpath = <<>> /\ src.path = MetaInfPath

(***************************************************************************)
(* FolderKeeper::AddContentFileToFolder                                    *)
(***************************************************************************)
\* lines 146-157: the media type
AddMediaType(fullfilepath, mimetype) ==
    LET mt == IF mimetype # "" /\ GetGroupFromMediaType(mimetype, "") = ""
              THEN "" ELSE mimetype
    IN  IF mt = ""
        THEN GetMediaTypeFromExtension(toLower(suffix(Filename(fullfilepath.path))), mimetype)
        ELSE mt

AddPlans_IgnoresFolder(fullfilepath, mimetype, bookpath, folderpath, filenames) ==
    LET mt        == AddMediaType(fullfilepath, mimetype)
        group     == DetermineFileGroup(fullfilepath, mt)
        resdesc   == GetResourceDescFromMediaType(mt, "Resource")
        filename0 == Filename(fullfilepath.path)
        norm_name == IF Head(filename0) = "." THEN Tail(filename0) ELSE filename0
        planned   == IF bookpath # <<>>
                     THEN {[filename |-> filename0, new_file_path |-> bookpath]}
                     ELSE {[filename |-> f,
                            new_file_path |-> GetDefaultFolderForGroup(group) \o <<f>>]
                             : f \in GetUniqueFilenameVersion(norm_name, filenames)}
    IN  {[filename      |-> pl.filename,
          new_file_path |-> IF ContainsFileExceptions(FullFilePath(fullfilepath))
                            THEN fullfilepath.path ELSE pl.new_file_path,
          type          |-> IF ContainsFileExceptions(FullFilePath(fullfilepath))
                            THEN "Resource" ELSE resdesc,
          mt            |-> mt] : pl \in planned}

\* lines 175-231: the file name, the path of the new file below the main
\* folder and the resource type, for each name the generator can return
AddPlans(fullfilepath, mimetype, bookpath, folderpath, filenames) ==
    LET mt        == AddMediaType(fullfilepath, mimetype)
        group     == DetermineFileGroup(fullfilepath, mt)
        resdesc   == GetResourceDescFromMediaType(mt, "Resource")
        filename0 == Filename(fullfilepath.path)
        norm_name == IF Head(filename0) = "." THEN Tail(filename0) ELSE filename0
        folder_to_use == IF folderpath = UseDefaultFolder
                         THEN GetDefaultFolderForGroup(group) ELSE folderpath
        planned   == IF bookpath # <<>>
                     THEN {[filename |-> filename0, new_file_path |-> bookpath]}
                     ELSE {[filename |-> f, new_file_path |-> folder_to_use \o <<f>>]
                             : f \in GetUniqueFilenameVersion(norm_name, filenames)}
    IN  {[filename      |-> pl.filename,
          new_file_path |-> IF ContainsFileExceptions(FullFilePath(fullfilepath))
                            THEN fullfilepath.path ELSE pl.new_file_path,
          type          |-> IF ContainsFileExceptions(FullFilePath(fullfilepath))
                            THEN "Resource" ELSE resdesc,
          mt            |-> mt] : pl \in planned}

\* lines 236-240: the key of the new resource in m_Path2Resource
AddBookPath(bookpath, new_file_path) ==
    IF bookpath # <<>> THEN bookpath ELSE new_file_path

\* the caller's obligation: a destination taken as given (an explicit book
\* path, a file of META-INF) is that of no registered resource, and an
\* explicit book path is where the file is put
ObeysAdd(fullfilepath, bookpath) ==
    LET verbatim == ContainsFileExceptions(FullFilePath(fullfilepath))
        dest     == IF verbatim THEN fullfilepath.path ELSE bookpath
    IN  (bookpath # <<>> \/ verbatim) =>
            /\ dest \notin RegisteredPaths
            /\ dest \notin DOMAIN m_Path2Resource
            /\ bookpath # <<>> => bookpath = dest

\* lines 251-257: the copy is skipped for a file unpacked into its place;
\* QFile::copy, whose result is not looked at, puts the file at the new path
\* unless the source cannot be read
QFileCopy(d, fullfilepath, new_file_path) ==
    IF fullfilepath.root = "main" /\ fullfilepath.path = new_file_path
    THEN d \cup {new_file_path}
    ELSE IF fullfilepath.readable THEN d \cup {new_file_path} ELSE d

AddContentFileToFolder_NoExistsCheck(fullfilepath, update_opf, mimetype, bookpath, folderpath) ==
    /\ Running
    /\ ~fullfilepath.exists
    /\ m_FileIconCache' = m_FileIconCache \cup {AddMediaType(fullfilepath, mimetype)}
    /\ last' = [NoCall EXCEPT !.op = "AddContentFileToFolder", !.src = fullfilepath,
                              !.mimetype = mimetype, !.bookpath = bookpath,
                              !.folderpath = folderpath,
                              !.result = "FileDoesNotExist"]
    /\ UNCHANGED <<objs, m_Resources, m_Path2Resource, m_OPF, m_NCX, m_GrpToFold,
                   watched, m_SuspendedWatchedFiles, disk, nextId,
                   m_AccessMutex, th, call>>

\* the call itself; limit bounds the number of resources of a run
AddContentFileToFolderUpTo(limit, fullfilepath, update_opf, mimetype, bookpath, folderpath) ==
    /\ Running
    /\ IF ~fullfilepath.exists
       THEN \* throw(FileDoesNotExist(fullfilepath.toStdString()))
            /\ last' = [NoCall EXCEPT !.op = "AddContentFileToFolder",
                                      !.src = fullfilepath, !.mimetype = mimetype,
                                      !.bookpath = bookpath, !.folderpath = folderpath,
                                      !.result = "FileDoesNotExist"]
            /\ UNCHANGED registryVars
       ELSE \* m_OPF->GetEpubVersion() needs the package document
            /\ m_OPF # NULL
            /\ nextId <= limit
            /\ \E plan \in AddPlans(fullfilepath, mimetype, bookpath, folderpath,
                                    GetAllFilenames) :
                 LET id        == nextId
                     book_path == AddBookPath(bookpath, plan.new_file_path)
                 IN  /\ objs' = Put(objs, id, [path |-> plan.new_file_path,
                                               spn  |-> plan.filename,
                                               mt   |-> plan.mt,
                                               type |-> plan.type])
                     /\ m_Resources' = m_Resources \cup {id}
                     /\ m_Path2Resource' = Put(m_Path2Resource, book_path, id)
                     /\ m_FileIconCache' = m_FileIconCache \cup {plan.mt}
                     /\ disk' = QFileCopy(disk, fullfilepath, plan.new_file_path)
                     /\ nextId' = nextId + 1
                     /\ last' = [NoCall EXCEPT
                                   !.op = "AddContentFileToFolder",
                                   !.src = fullfilepath, !.mimetype = mimetype,
                                   !.bookpath = bookpath, !.folderpath = folderpath,
                                   !.ids = <<id>>,
                                   !.news = <<plan.new_file_path>>,
                                   !.emitted = IF update_opf
                                               THEN <<Signal("ResourceAdded", <<id>>, <<>>)>>
                                               ELSE <<>>]
                     /\ UNCHANGED <<m_OPF, m_NCX, m_GrpToFold, watched,
                                    m_SuspendedWatchedFiles>>

AddContentFileToFolder(fullfilepath, update_opf, mimetype, bookpath, folderpath) ==
    /\ AddContentFileToFolderUpTo(MaxResources, fullfilepath, update_opf, mimetype,
                                  bookpath, folderpath)
    /\ UNCHANGED <<m_AccessMutex, th, call>>

(***************************************************************************)
(* FolderKeeper::AddOPFToFolder, AddNCXToFolder, RemoveNCXFromFolder       *)
(***************************************************************************)
DefaultBookPath(group, filename) == GetDefaultFolderForGroup(group) \o <<filename>>

\* CONTAINER_XML, the line of the rootfile element up to and after "%1"
sRootfileHead ==
    <<"<", "r", "o", "o", "t", "f", "i", "l", "e", " ",
      "f", "u", "l", "l", "-", "p", "a", "t", "h", "=", "\"">>

sRootfileTail == <<"\"", "/", ">">>

\* CONTAINER_XML.arg(opfbookpath): QString::arg puts the text in as it is
ContainerXML(opfbookpath) == sRootfileHead \o Join(opfbookpath) \o sRootfileTail

\* the descriptor always names the default place of the package document
AddOPFToFolder_DefaultRootfile(version, bookpath) ==
    LET OPFBookPath == IF bookpath # <<>> THEN bookpath
                       ELSE DefaultBookPath("opf", sContentOpf)
        id == nextId
    IN  /\ Running
        /\ nextId <= MaxResources
        /\ objs' = Put(objs, id, [path |-> OPFBookPath, spn |-> Filename(OPFBookPath),
                                  mt |-> OpfMediaType, type |-> "OPFResource"])
        /\ m_Resources' = m_Resources \cup {id}
        /\ m_Path2Resource' = Put(m_Path2Resource, OPFBookPath, id)
        /\ m_FileIconCache' = m_FileIconCache \cup {OpfMediaType}
        /\ m_OPF' = id
        \* the package document writes its file; UpdateContainerXML writes the descriptor
        /\ disk' = disk \cup {OPFBookPath, <<sMETAINF, sContainerXml>>}
        /\ nextId' = nextId + 1
        /\ last' = [NoCall EXCEPT !.op = "AddOPFToFolder", !.bookpath = bookpath,
                                  !.ids = <<id>>, !.news = <<OPFBookPath>>,
                                  !.written = ContainerXML(DefaultBookPath("opf", sContentOpf))]
        /\ UNCHANGED <<m_NCX, m_GrpToFold, watched, m_SuspendedWatchedFiles,
                       m_AccessMutex, th, call>>

AddOPFToFolder(version, bookpath) ==
    LET OPFBookPath == IF bookpath # <<>> THEN bookpath
                       ELSE DefaultBookPath("opf", sContentOpf)
        id == nextId
    IN  /\ Running
        /\ nextId <= MaxResources
        /\ objs' = Put(objs, id, [path |-> OPFBookPath, spn |-> Filename(OPFBookPath),
                                  mt |-> OpfMediaType, type |-> "OPFResource"])
        /\ m_Resources' = m_Resources \cup {id}
        /\ m_Path2Resource' = Put(m_Path2Resource, OPFBookPath, id)
        /\ m_FileIconCache' = m_FileIconCache \cup {OpfMediaType}
        /\ m_OPF' = id
        \* the package document writes its file; UpdateContainerXML writes the descriptor
        /\ disk' = disk \cup {OPFBookPath, <<sMETAINF, sContainerXml>>}
        /\ nextId' = nextId + 1
        /\ last' = [NoCall EXCEPT !.op = "AddOPFToFolder", !.bookpath = bookpath,
                                  !.ids = <<id>>, !.news = <<OPFBookPath>>,
                                  !.written = ContainerXML(OPFBookPath)]
        /\ UNCHANGED <<m_NCX, m_GrpToFold, watched, m_SuspendedWatchedFiles,
                       m_AccessMutex, th, call>>

\* the call itself; limit bounds the number of resources of a run
AddNCXToFolderUpTo(limit, version, bookpath, first_textdir) ==
    LET NCXBookPath == IF bookpath # <<>> THEN bookpath
                       ELSE DefaultBookPath("ncx", sTocNcx)
        id == nextId
    IN  /\ Running
        \* m_OPF->GetMainIdentifierValue() needs the package document
        /\ m_OPF # NULL
        /\ nextId <= limit
        /\ objs' = Put(objs, id, [path |-> NCXBookPath, spn |-> Filename(NCXBookPath),
                                  mt |-> NcxMediaType, type |-> "NCXResource"])
        /\ m_Resources' = m_Resources \cup {id}
        /\ m_Path2Resource' = Put(m_Path2Resource, NCXBookPath, id)
        /\ m_FileIconCache' = m_FileIconCache \cup {NcxMediaType}
        /\ m_NCX' = id
        /\ disk' = disk \cup {NCXBookPath}
        /\ nextId' = nextId + 1
        /\ last' = [NoCall EXCEPT !.op = "AddNCXToFolder", !.bookpath = bookpath,
                                  !.ids = <<id>>, !.news = <<NCXBookPath>>]
        /\ UNCHANGED <<m_OPF, m_GrpToFold, watched, m_SuspendedWatchedFiles>>

AddNCXToFolder(version, bookpath, first_textdir) ==
    /\ AddNCXToFolderUpTo(MaxResources, version, bookpath, first_textdir)
    /\ UNCHANGED <<m_AccessMutex, th, call>>

\* the body of the slot FolderKeeper::RemoveResource on [res, p2r, watched, susp]
RemoveFromIndexes_KeepsPath(k, id) ==
    [k EXCEPT !.res = @ \ {id},
              !.watched = @ \ {k.objs[id].path},
              !.susp = SelectSeq(@, LAMBDA f : f # k.objs[id].path)]

RemoveFromIndexes_KeepsHeldAside(k, id) ==
    [k EXCEPT !.res = @ \ {id},
              !.p2r = Remove(@, k.objs[id].path),
              !.watched = @ \ {k.objs[id].path}]

RemoveFromIndexes(k, id) ==
    [k EXCEPT !.res = @ \ {id},
              !.p2r = Remove(@, k.objs[id].path),
              !.watched = @ \ {k.objs[id].path},
              !.susp = SelectSeq(@, LAMBDA f : f # k.objs[id].path)]

Keeper ==
    [objs |-> objs, res |-> m_Resources, p2r |-> m_Path2Resource, disk |-> disk,
     watched |-> watched, susp |-> m_SuspendedWatchedFiles, emitted |-> <<>>]

WatchState == [watched |-> watched, susp |-> m_SuspendedWatchedFiles]

RemoveNCXFromFolder ==
    /\ Running
    /\ IF m_NCX = NULL
       THEN /\ last' = [NoCall EXCEPT !.op = "RemoveNCXFromFolder"]
            /\ UNCHANGED <<registryVars>>
       ELSE LET k == RemoveFromIndexes(Keeper, m_NCX)
            IN  /\ m_Resources' = k.res
                /\ m_Path2Resource' = k.p2r
                /\ watched' = k.watched
                /\ m_SuspendedWatchedFiles' = k.susp
                /\ m_NCX' = NULL
                /\ last' = [NoCall EXCEPT !.op = "RemoveNCXFromFolder", !.ids = <<m_NCX>>,
                                          !.emitted = <<Signal("ResourceRemoved", <<m_NCX>>, <<>>)>>,
                                          !.before = WatchState]
                /\ UNCHANGED <<objs, m_OPF, m_GrpToFold, m_FileIconCache, disk, nextId>>
    /\ UNCHANGED <<m_AccessMutex, th, call>>

(***************************************************************************)
(* Rename and move of one resource: Resource::RenameTo / MoveTo, whose     *)
(* signal runs the slot FolderKeeper::ResourceRenamed / ResourceMoved      *)
(***************************************************************************)
\* the slot: the index, the call on the package document, the short names
Relocate(op, sig, resource, newpath, newp2r) ==
    LET oldpath == objs[resource].path
        o1      == Relocated(objs, resource, newpath)
        upd     == updateShortPathNames(o1, m_Resources, newp2r)
    IN  /\ objs' = upd.objs
        /\ m_Path2Resource' = newp2r
        /\ disk' = MovedFiles(disk, oldpath, newpath)
        \* QFileSystemWatcher stops watching a file that is renamed (lines 671-672)
        /\ watched' = watched \ {oldpath}
        /\ last' = [NoCall EXCEPT !.op = op, !.ids = <<resource>>,
                                  !.news = <<newpath>>,
                                  !.oks = <<TRUE>>, !.result = upd.status,
                                  !.emitted = IF sig = "" THEN <<>>
                                              ELSE <<Signal(sig, <<resource>>, <<oldpath>>)>>]
        /\ UNCHANGED <<m_Resources, m_OPF, m_NCX, m_GrpToFold, m_FileIconCache,
                       m_SuspendedWatchedFiles, nextId>>

\* the call is rejected: nothing is renamed and no signal is emitted
Rejected(op, resource, newpath) ==
    /\ last' = [NoCall EXCEPT !.op = op, !.ids = <<resource>>,
                              !.news = <<newpath>>, !.oks = <<FALSE>>]
    /\ UNCHANGED registryVars

RenameTo(resource, new_filename) ==
    LET oldpath == objs[resource].path
        newpath == startingDir(oldpath) \o <<new_filename>>
    IN  /\ Running
        /\ resource \in m_Resources
        /\ IF CanMoveFile(disk, oldpath, newpath)
           THEN Relocate("RenameTo",
                         IF resource # m_OPF THEN "OPF.ResourceRenamed" ELSE "",
                         resource, newpath,
                         ResourceRenamed(m_Path2Resource, oldpath, newpath))
           ELSE Rejected("RenameTo", resource, newpath)
        /\ UNCHANGED <<m_AccessMutex, th, call>>

ResourceMoved(p2r, old_book_path, new_book_path) ==
    LET res == Value(p2r, old_book_path, NULL)
    IN  Put(Remove(p2r, old_book_path), new_book_path, res)

MoveTo(resource, newbookpath) ==
    LET oldpath == objs[resource].path
    IN  /\ Running
        /\ resource \in m_Resources
        /\ IF CanMoveFile(disk, oldpath, newbookpath)
           THEN Relocate("MoveTo", "OPF.ResourceMoved", resource, newbookpath,
                         ResourceMoved(m_Path2Resource, oldpath, newbookpath))
           ELSE Rejected("MoveTo", resource, newbookpath)
        /\ UNCHANGED <<m_AccessMutex, th, call>>

(***************************************************************************)
(* FolderKeeper::BulkRenameResources, FolderKeeper::BulkMoveResources      *)
(***************************************************************************)
\* the for loop; newpaths[i] is the path item i is to get.  k collects the
\* objects, the index, the files and, per item, the old path and the success.
RECURSIVE BulkLoop(_, _, _, _)
BulkLoop(k, resources, newpaths, i) ==
    IF i > Len(resources) THEN k
    ELSE LET rsc     == resources[i]
             pold    == k.objs[rsc].path
             pnew    == newpaths[i]
             success == CanMoveFile(k.disk, pold, pnew)
         IN  BulkLoop(
               IF success
               THEN [objs |-> Relocated(k.objs, rsc, pnew),
                     p2r  |-> BulkIndexUpdate(k.p2r, pold, pnew, rsc),
                     disk |-> MovedFiles(k.disk, pold, pnew),
                     olds |-> Append(k.olds, pold),
                     oks  |-> Append(k.oks, TRUE)]
               ELSE [k EXCEPT !.olds = Append(@, pold), !.oks = Append(@, FALSE)],
               resources, newpaths, i + 1)

\* the items of a list a bulk call succeeded on
Succeeded(xs, oks) ==
    LET F[i \in 0..Len(xs)] ==
            IF i = 0 THEN <<>>
            ELSE IF oks[i] THEN Append(F[i - 1], xs[i]) ELSE F[i - 1]
    IN  F[Len(xs)]

BulkRelocate(op, sig, resources, requested, newpaths) ==
    LET k   == BulkLoop([objs |-> objs, p2r |-> m_Path2Resource, disk |-> disk,
                         olds |-> <<>>, oks |-> <<>>], resources, newpaths, 1)
        upd == updateShortPathNames(k.objs, m_Resources, k.p2r)
    IN  /\ Running
        /\ Range(resources) \subseteq m_Resources
        /\ objs' = upd.objs
        /\ m_Path2Resource' = k.p2r
        /\ disk' = k.disk
        \* QFileSystemWatcher stops watching the files that are renamed
        /\ watched' = watched \ Range(Succeeded(k.olds, k.oks))
        /\ last' = [NoCall EXCEPT !.op = op, !.ids = resources,
                                  !.news = requested, !.oks = k.oks,
                                  !.result = upd.status,
                                  !.emitted = <<Signal(sig, Succeeded(resources, k.oks),
                                                       Succeeded(k.olds, k.oks))>>]
        /\ UNCHANGED <<m_Resources, m_OPF, m_NCX, m_GrpToFold, m_FileIconCache,
                       m_SuspendedWatchedFiles, nextId,
                       m_AccessMutex, th, call>>

\* the path RenameTo(newnm) gives each item: its folder and the new name.  The
\* folder of a resource does not change in a rename, so it is that of the call.
BulkRenameResources(resources, newnames) ==
    BulkRelocate("BulkRenameResources", "OPF.BulkResourcesRenamed", resources,
                 [i \in 1..Len(newnames) |-> <<newnames[i]>>],
                 [i \in 1..Len(resources) |->
                     startingDir(objs[resources[i]].path) \o <<newnames[i]>>])

BulkMoveResources(resources, newpaths) ==
    BulkRelocate("BulkMoveResources", "OPF.BulkResourcesMoved", resources,
                 newpaths, newpaths)

(***************************************************************************)
(* FolderKeeper::RemoveResource (the slot of Resource::Delete) and         *)
(* FolderKeeper::BulkRemoveResources                                       *)
(***************************************************************************)
\* Resource::Delete: the file is deleted, the signal Deleted runs the slot,
\* the object is destroyed
Delete(resource) ==
    LET k == RemoveFromIndexes(Keeper, resource)
    IN  /\ Running
        /\ resource \in m_Resources
        /\ objs' = Remove(objs, resource)
        /\ m_Resources' = k.res
        /\ m_Path2Resource' = k.p2r
        /\ watched' = k.watched
        /\ m_SuspendedWatchedFiles' = k.susp
        /\ disk' = disk \ {objs[resource].path}
        /\ last' = [NoCall EXCEPT !.op = "Delete", !.ids = <<resource>>,
                                  !.emitted = <<Signal("ResourceRemoved", <<resource>>, <<>>)>>,
                                  !.before = WatchState]
        /\ UNCHANGED <<m_OPF, m_NCX, m_GrpToFold, m_FileIconCache, nextId,
                       m_AccessMutex, th, call>>

\* the foreach loop: the indexes, the watcher, the held-aside list, the
\* disconnect of Deleted from the slot RemoveResource, resource->Delete()
RECURSIVE BulkRemoveLoop_NoDisconnect(_, _)
BulkRemoveLoop_NoDisconnect(k, resources) ==
    IF resources = <<>> THEN k
    ELSE LET resource == Head(resources)
             k1 == RemoveFromIndexes(k, resource)
         IN  BulkRemoveLoop_NoDisconnect(
                 [k1 EXCEPT !.disk = @ \ {k.objs[resource].path},
                            !.objs = Remove(@, resource),
                            !.emitted = @ \o <<Signal("Resource.Delete", <<resource>>, <<>>),
                                               Signal("ResourceRemoved", <<resource>>, <<>>)>>],
                 Tail(resources))

RECURSIVE BulkRemoveLoop(_, _)
BulkRemoveLoop(k, resources) ==
    IF resources = <<>> THEN k
    ELSE LET resource == Head(resources)
             k1 == RemoveFromIndexes(k, resource)
         IN  BulkRemoveLoop(
                 [k1 EXCEPT !.disk = @ \ {k.objs[resource].path},
                            !.objs = Remove(@, resource),
                            !.emitted = Append(@, Signal("Resource.Delete", <<resource>>, <<>>))],
                 Tail(resources))

BulkRemoveResources(resources) ==
    LET k == BulkRemoveLoop(
                 [Keeper EXCEPT !.emitted =
                     <<Signal("OPF.BulkRemoveResources", resources, <<>>)>>],
                 resources)
    IN  /\ Running
        \* m_OPF->BulkRemoveResources(resources) needs the package document
        /\ m_OPF # NULL
        /\ resources # <<>>
        /\ Range(resources) \subseteq m_Resources
        /\ objs' = k.objs
        /\ m_Resources' = k.res
        /\ m_Path2Resource' = k.p2r
        /\ watched' = k.watched
        /\ m_SuspendedWatchedFiles' = k.susp
        /\ disk' = k.disk
        /\ last' = [NoCall EXCEPT !.op = "BulkRemoveResources", !.ids = resources,
                                  !.emitted = k.emitted, !.before = WatchState]
        /\ UNCHANGED <<m_OPF, m_NCX, m_GrpToFold, m_FileIconCache, nextId,
                       m_AccessMutex, th, call>>

(***************************************************************************)
(* The watcher: WatchResourceFile, SuspendWatchingResources,               *)
(* ResumeWatchingResources, ResourceFileChanged                            *)
(***************************************************************************)
\* the resource types external editors may open
EditableTypes == {"HTMLResource", "CSSResource", "ImageResource", "SVGResource",
                  "FontResource", "MiscTextResource", "XMLResource",
                  "AudioResource", "VideoResource", "OPFResource", "NCXResource"}

\* OpenExternally::mayOpen
mayOpen(type) == type \in EditableTypes

\* m_FSWatcher->addPath(path): QFileSystemWatcher does not add a path that
\* does not exist
addPath(files, d, path) == IF path \in d THEN files \cup {path} ELSE files

\* m_FSWatcher->files() as a list; the order is the watcher's and no caller
\* depends on it
files(S) == CHOOSE q \in DistinctSeqs(S, Cardinality(S)) : Len(q) = Cardinality(S)

WatchResourceFile_AnyType(resource) ==
    LET path == objs[resource].path
    IN  /\ Running
        /\ resource \in m_Resources
        /\ watched' = IF path \notin watched THEN addPath(watched, disk, path)
                      ELSE watched
        /\ last' = [NoCall EXCEPT !.op = "WatchResourceFile", !.ids = <<resource>>,
                                  !.before = WatchState]
        /\ UNCHANGED <<objs, m_Resources, m_Path2Resource, m_OPF, m_NCX, m_GrpToFold,
                       m_FileIconCache, m_SuspendedWatchedFiles, disk, nextId,
                       m_AccessMutex, th, call>>

WatchResourceFile(resource) ==
    LET path == objs[resource].path
    IN  /\ Running
        /\ resource \in m_Resources
        /\ watched' = IF mayOpen(objs[resource].type)
                      THEN IF path \notin watched THEN addPath(watched, disk, path)
                           ELSE watched
                      ELSE watched
        /\ last' = [NoCall EXCEPT !.op = "WatchResourceFile", !.ids = <<resource>>,
                                  !.before = WatchState]
        /\ UNCHANGED <<objs, m_Resources, m_Path2Resource, m_OPF, m_NCX, m_GrpToFold,
                       m_FileIconCache, m_SuspendedWatchedFiles, disk, nextId,
                       m_AccessMutex, th, call>>

SuspendWatchingResources_KeepsWatching ==
    /\ Running
    /\ IF m_SuspendedWatchedFiles = <<>> /\ watched # {}
       THEN /\ m_SuspendedWatchedFiles' = m_SuspendedWatchedFiles \o files(watched)
            /\ watched' = watched
       ELSE UNCHANGED <<watched, m_SuspendedWatchedFiles>>
    /\ last' = [NoCall EXCEPT !.op = "SuspendWatchingResources", !.before = WatchState]
    /\ UNCHANGED <<objs, m_Resources, m_Path2Resource, m_OPF, m_NCX, m_GrpToFold,
                   m_FileIconCache, disk, nextId, m_AccessMutex, th, call>>

SuspendWatchingResources_Always ==
    /\ Running
    /\ IF watched # {}
       THEN /\ m_SuspendedWatchedFiles' = files(watched)
            /\ watched' = {}
       ELSE UNCHANGED <<watched, m_SuspendedWatchedFiles>>
    /\ last' = [NoCall EXCEPT !.op = "SuspendWatchingResources", !.before = WatchState]
    /\ UNCHANGED <<objs, m_Resources, m_Path2Resource, m_OPF, m_NCX, m_GrpToFold,
                   m_FileIconCache, disk, nextId, m_AccessMutex, th, call>>

SuspendWatchingResources ==
    /\ Running
    /\ IF m_SuspendedWatchedFiles = <<>> /\ watched # {}
       THEN /\ m_SuspendedWatchedFiles' = m_SuspendedWatchedFiles \o files(watched)
            /\ watched' = watched \ Range(m_SuspendedWatchedFiles')
       ELSE UNCHANGED <<watched, m_SuspendedWatchedFiles>>
    /\ last' = [NoCall EXCEPT !.op = "SuspendWatchingResources", !.before = WatchState]
    /\ UNCHANGED <<objs, m_Resources, m_Path2Resource, m_OPF, m_NCX, m_GrpToFold,
                   m_FileIconCache, disk, nextId, m_AccessMutex, th, call>>

\* foreach(QString path, m_SuspendedWatchedFiles) if (QFile::exists(path)) addPath
RECURSIVE Rearm_Any(_, _, _)
Rearm_Any(fs, d, paths) ==
    IF paths = <<>> THEN fs
    ELSE Rearm_Any(fs \cup {Head(paths)}, d, Tail(paths))

RECURSIVE Rearm(_, _, _)
Rearm(fs, d, paths) ==
    IF paths = <<>> THEN fs
    ELSE Rearm(IF Head(paths) \in d THEN addPath(fs, d, Head(paths)) ELSE fs,
               d, Tail(paths))

ResumeWatchingResources ==
    /\ Running
    /\ IF m_SuspendedWatchedFiles # <<>>
       THEN /\ watched' = Rearm(watched, disk, m_SuspendedWatchedFiles)
            /\ m_SuspendedWatchedFiles' = <<>>
       ELSE UNCHANGED <<watched, m_SuspendedWatchedFiles>>
    /\ last' = [NoCall EXCEPT !.op = "ResumeWatchingResources", !.before = WatchState]
    /\ UNCHANGED <<objs, m_Resources, m_Path2Resource, m_OPF, m_NCX, m_GrpToFold,
                   m_FileIconCache, disk, nextId, m_AccessMutex, th, call>>

\* foreach(Resource *resource, m_Resources.values()): the first resource
\* whose full path is the path is told that its file changed
FileChangedOnDisk_AnyResource(path) ==
    IF ResourceOrder = <<>> THEN <<>>
    ELSE <<Signal("Resource.FileChangedOnDisk", <<Head(ResourceOrder)>>, <<>>)>>

FileChangedOnDisk(path) ==
    LET owners == SelectSeq(ResourceOrder, LAMBDA r : objs[r].path = path)
    IN  IF owners = <<>> THEN <<>>
        ELSE <<Signal("Resource.FileChangedOnDisk", <<Head(owners)>>, <<>>)>>

ResourceFileChanged_NoExistsCheck(path) ==
    /\ Running
    /\ watched' = watched \cup {path}
    /\ last' = [NoCall EXCEPT !.op = "ResourceFileChanged", !.bookpath = path,
                              !.emitted = FileChangedOnDisk(path),
                              !.before = WatchState]
    /\ UNCHANGED <<objs, m_Resources, m_Path2Resource, m_OPF, m_NCX, m_GrpToFold,
                   m_FileIconCache, m_SuspendedWatchedFiles, disk, nextId,
                   m_AccessMutex, th, call>>

\* the slot of QFileSystemWatcher::fileChanged.  The wait of lines 665-669 is
\* over when the action is taken: a file written during the wait is on disk.
ResourceFileChanged(path) ==
    /\ Running
    /\ IF path \in disk
       THEN /\ watched' = IF path \notin watched THEN addPath(watched, disk, path)
                          ELSE watched
            /\ last' = [NoCall EXCEPT !.op = "ResourceFileChanged", !.bookpath = path,
                                      !.emitted = FileChangedOnDisk(path),
                                      !.before = WatchState]
       ELSE /\ watched' = watched
            /\ last' = [NoCall EXCEPT !.op = "ResourceFileChanged", !.bookpath = path,
                                      !.before = WatchState]
    /\ UNCHANGED <<objs, m_Resources, m_Path2Resource, m_OPF, m_NCX, m_GrpToFold,
                   m_FileIconCache, m_SuspendedWatchedFiles, disk, nextId,
                   m_AccessMutex, th, call>>

\* lines 664, 671-672: a file is deleted outside the application, and
\* QFileSystemWatcher stops watching it
FileDeletedOnDisk(path) ==
    /\ Running
    /\ path \in disk
    /\ disk' = disk \ {path}
    /\ watched' = watched \ {path}
    /\ last' = [NoCall EXCEPT !.op = "FileDeletedOnDisk", !.bookpath = path]
    /\ UNCHANGED <<objs, m_Resources, m_Path2Resource, m_OPF, m_NCX, m_GrpToFold,
                   m_FileIconCache, m_SuspendedWatchedFiles, nextId,
                   m_AccessMutex, th, call>>

\* lines 664, 674-676: an editor writes the new version of a file it deleted
FileWrittenOnDisk(path) ==
    /\ Running
    /\ path \notin disk
    /\ disk' = disk \cup {path}
    /\ last' = [NoCall EXCEPT !.op = "FileWrittenOnDisk", !.bookpath = path]
    /\ UNCHANGED <<objs, m_Resources, m_Path2Resource, m_OPF, m_NCX, m_GrpToFold,
                   m_FileIconCache, watched, m_SuspendedWatchedFiles, nextId,
                   m_AccessMutex, th, call>>

(***************************************************************************)
(* The registry driven from one thread                                     *)
(***************************************************************************)
Threads == 1..2

NoPlan == [filename |-> <<>>, new_file_path |-> <<>>, type |-> "", mt |-> ""]

IdleThread == [pc |-> "idle", src |-> NoSource, update_opf |-> FALSE,
               plan |-> NoPlan, id |-> NULL]

NoPureCall == [fn |-> "", pc |-> "", filename |-> <<>>, filenames |-> <<>>,
               bookpaths |-> <<>>, result |-> <<>>, names |-> EmptyMap, status |-> "",
               filepath |-> NoSource, mimetype |-> "", group |-> ""]

MimeTypes == {""}

\* FolderKeeper::FolderKeeper
Fresh ==
    /\ objs = EmptyMap
    /\ m_Resources = {}
    /\ m_Path2Resource = EmptyMap
    /\ m_OPF = NULL
    /\ m_NCX = NULL
    /\ m_GrpToFold = CreateGroupToFoldersMap
    /\ m_FileIconCache = {}
    /\ watched = {}
    /\ m_SuspendedWatchedFiles = <<>>
    /\ disk = {}
    /\ nextId = 1
    /\ last = [NoCall EXCEPT !.op = "FolderKeeper"]
    /\ m_AccessMutex = 0
    /\ th = [t \in Threads |-> IdleThread]

Init ==
    /\ Fresh
    /\ call = NoPureCall

\* the lists a bulk call is given: distinct resources
BulkLists(S) == DistinctSeqs(S, MaxBulk) \ {<<>>}

\* the calls on one resource made whatever the caller checks first
NextCommon ==
    \/ RemoveNCXFromFolder
    \/ \E resource \in m_Resources, new_filename \in RenamePool :
          RenameTo(resource, new_filename)
    \/ \E resource \in m_Resources, newbookpath \in BookPathPool :
          MoveTo(resource, newbookpath)
    \/ \E resource \in m_Resources \ {m_OPF, m_NCX} : Delete(resource)

\* callers that keep their obligations: a book path handed in is free, the
\* package and the navigation document are added once
Next ==
    \/ \E src \in Sources, update_opf \in BOOLEAN, mimetype \in MimeTypes,
          bookpath \in {<<>>} \cup BookPathPool, folderpath \in FolderArgs :
          /\ PlausibleAdd(src, bookpath)
          /\ ObeysAdd(src, bookpath)
          /\ AddContentFileToFolder(src, update_opf, mimetype, bookpath, folderpath)
    \/ /\ m_OPF = NULL
       /\ AddOPFToFolder("2.0", <<>>)
    \/ /\ m_NCX = NULL
       /\ DefaultBookPath("ncx", sTocNcx) \notin RegisteredPaths
       /\ AddNCXToFolder("2.0", <<>>, UseDefaultFolder)
    \/ NextCommon

Spec == Init /\ [][Next]_vars

\* any caller
NextAny ==
    \/ \E src \in Sources, update_opf \in BOOLEAN, mimetype \in MimeTypes,
          bookpath \in {<<>>} \cup BookPathPool, folderpath \in FolderArgs :
          /\ PlausibleAdd(src, bookpath)
          /\ AddContentFileToFolder(src, update_opf, mimetype, bookpath, folderpath)
    \/ AddOPFToFolder("2.0", <<>>)
    \/ AddNCXToFolder("2.0", <<>>, UseDefaultFolder)
    \/ NextCommon

SpecAny == Init /\ [][NextAny]_vars

\* callers that keep their obligations and rename, move and remove in batches
NextBulk ==
    \/ \E src \in {f \in Sources : f.exists /\ f.path # MetaInfPath},
          bookpath \in {<<>>} \cup BookPathPool :
          /\ PlausibleAdd(src, bookpath)
          /\ ObeysAdd(src, bookpath)
          /\ AddContentFileToFolder(src, TRUE, "", bookpath, UseDefaultFolder)
    \/ /\ m_OPF = NULL
       /\ AddOPFToFolder("2.0", <<>>)
    \/ \E resource \in m_Resources, new_filename \in RenamePool :
          RenameTo(resource, new_filename)
    \/ \E resource \in m_Resources, newbookpath \in BookPathPool :
          MoveTo(resource, newbookpath)
    \/ \E resources \in BulkLists(m_Resources) :
          \E newnames \in [1..Len(resources) -> BulkRenamePool] :
             BulkRenameResources(resources, newnames)
    \/ \E resources \in BulkLists(m_Resources) :
          \E newpaths \in [1..Len(resources) -> BookPathPool] :
             BulkMoveResources(resources, newpaths)
    \/ \E resources \in BulkLists(m_Resources \ {m_OPF, m_NCX}) :
          BulkRemoveResources(resources)

SpecBulk == Init /\ [][NextBulk]_vars

(***************************************************************************)
(* The registry and the watcher                                            *)
(***************************************************************************)
\* a file that exists and cannot be read
UnreadableSource == [root |-> "ext", path |-> <<sCcss>>, exists |-> TRUE, readable |-> FALSE]

WatchSources ==
    {[root |-> "ext", path |-> <<sCcss>>, exists |-> TRUE, readable |-> TRUE],
     UnreadableSource,
     [root |-> "main", path |-> MetaInfPath, exists |-> TRUE, readable |-> TRUE]}

\* the paths of the files of the resources
FilePaths == {objs[r].path : r \in m_Resources \ {m_OPF}}

\* the paths a notification of the watcher can be about: those of the files
\* that can have been watched
NotifiedPaths ==
    {objs[r].path : r \in {x \in m_Resources \ {m_OPF} : mayOpen(objs[x].type)}}
        \cup Range(m_SuspendedWatchedFiles)

NextWatch ==
    \/ \E src \in WatchSources :
          /\ ObeysAdd(src, <<>>)
          /\ AddContentFileToFolder(src, TRUE, "", <<>>, UseDefaultFolder)
    \/ /\ m_OPF = NULL
       /\ AddOPFToFolder("2.0", <<>>)
    \/ \E resource \in m_Resources \ {m_OPF} : Delete(resource)
    \/ \E resources \in BulkLists(m_Resources \ {m_OPF}) :
          BulkRemoveResources(resources)
    \/ \E resource \in m_Resources : WatchResourceFile(resource)
    \/ SuspendWatchingResources
    \/ ResumeWatchingResources
    \/ \E path \in NotifiedPaths : ResourceFileChanged(path)
    \/ \E path \in FilePaths : FileDeletedOnDisk(path)
    \/ \E path \in FilePaths : FileWrittenOnDisk(path)

SpecWatch == Init /\ [][NextWatch]_vars

\* the watcher while resources are added, renamed, moved and removed
NextRelocateWatch ==
    \/ \E src \in {f \in WatchSources : f.root = "ext" /\ f.readable} :
          AddContentFileToFolder(src, TRUE, "", <<>>, UseDefaultFolder)
    \/ /\ m_OPF = NULL
       /\ AddOPFToFolder("2.0", <<>>)
    \/ \E resource \in m_Resources \ {m_OPF}, new_filename \in RenamePool :
          RenameTo(resource, new_filename)
    \/ \E resource \in m_Resources \ {m_OPF}, newbookpath \in BookPathPool :
          MoveTo(resource, newbookpath)
    \/ \E resource \in m_Resources \ {m_OPF} : Delete(resource)
    \/ \E resource \in m_Resources \ {m_OPF} : WatchResourceFile(resource)
    \/ SuspendWatchingResources
    \/ ResumeWatchingResources
    \/ \E path \in NotifiedPaths : ResourceFileChanged(path)

SpecRelocateWatch == Init /\ [][NextRelocateWatch]_vars

(***************************************************************************)
(* GetUniqueFilenameVersion and updateShortPathNames on their own          *)
(***************************************************************************)
MaxNames == 3

MaxPaths == 3

sCcssUpper == <<"C", ".", "c", "s", "s">>

sC0001css == <<"c", "0", "0", "0", "1", ".", "c", "s", "s">>

sC9css == <<"c", "9", ".", "c", "s", "s">>

sCIntMaxCss == <<"c">> \o NumberChars(IntMax) \o <<".">> \o sCss

sCIntMinCss == <<"c">> \o IntMinChars \o <<".">> \o sCss

sCh1 == <<"c", "h", "1", ".", "x", "h", "t", "m", "l">>

sOther == <<"O", "t", "h", "e", "r">>

FilenamePool == {sCcss, sCcssUpper, sC0001css, sC9css, sCIntMaxCss, sCIntMinCss}

PathPool ==
    {<<sA, sB, sCcss>>, <<sB, sCcss>>, <<sCcss>>,
     <<sOEBPS, sText, sCh1>>, <<sOEBPS, sOther, sCh1>>}

\* a candidate and the file names GetAllFilenames() returns
InitUnique ==
    /\ Fresh
    /\ \E filename \in FilenamePool, filenames \in DistinctSeqs(FilenamePool, MaxNames) :
          call = [NoPureCall EXCEPT !.fn = "GetUniqueFilenameVersion", !.pc = "call",
                                    !.filename = filename, !.filenames = filenames]

GetUniqueFilenameVersionCall ==
    /\ call.fn = "GetUniqueFilenameVersion"
    /\ call.pc = "call"
    /\ \E name \in GetUniqueFilenameVersion(call.filename, call.filenames) :
          call' = [call EXCEPT !.pc = "done", !.result = name]
    /\ UNCHANGED <<registryVars, last, m_AccessMutex, th>>

SpecUnique == InitUnique /\ [][GetUniqueFilenameVersionCall]_vars

\* the book paths GetAllBookPaths() returns, pairwise distinct
InitShort ==
    /\ Fresh
    /\ \E bookpaths \in DistinctSeqs(PathPool, MaxPaths) :
          call = [NoPureCall EXCEPT !.fn = "updateShortPathNames", !.pc = "call",
                                    !.bookpaths = bookpaths]

\* the loops of updateShortPathNames up to the names the resources are given
updateShortPathNamesCall ==
    /\ call.fn = "updateShortPathNames"
    /\ call.pc = "call"
    /\ LET table == ShortNameTable(call.bookpaths)
       IN  call' = [call EXCEPT
                      !.pc = "done",
                      !.status = table.status,
                      !.names = [bp \in DOMAIN table.st.BookToSPN |->
                                   StripMarker(table.st.BookToSPN[bp])]]
    /\ UNCHANGED <<registryVars, last, m_AccessMutex, th>>

SpecShort == InitShort /\ [][updateShortPathNamesCall]_vars

(***************************************************************************)
(* AddContentFileToFolder called from several threads, step by step        *)
(***************************************************************************)
MaxAdds == 3

\* the files the threads add, each under the name the registry gives it
ThreadSources ==
    {[root |-> "ext", path |-> <<sCcss>>, exists |-> TRUE, readable |-> TRUE],
     [root |-> "ext", path |-> <<sCIntMaxCss>>, exists |-> TRUE, readable |-> TRUE]}

\* the calls under way that have not created their resource yet
Pending == {t \in Threads : th[t].pc \in {"lock", "name", "create"}}

\* lines 137-165: the call starts; the file exists
Call(t, fullfilepath, update_opf) ==
    /\ th[t].pc = "idle"
    /\ fullfilepath.exists
    /\ m_OPF # NULL
    /\ Cardinality(m_Resources \ {m_OPF}) + Cardinality(Pending) < MaxAdds
    /\ th' = [th EXCEPT ![t] = [IdleThread EXCEPT !.pc = "lock", !.src = fullfilepath,
                                                  !.update_opf = update_opf]]
    /\ UNCHANGED <<registryVars, last, m_AccessMutex, call>>

\* line 173: QMutexLocker locker(&m_AccessMutex)
Lock(t) ==
    /\ th[t].pc = "lock"
    /\ m_AccessMutex = 0
    /\ m_AccessMutex' = t
    /\ th' = [th EXCEPT ![t].pc = "name"]
    /\ UNCHANGED <<registryVars, last, call>>

\* lines 175-198: the unique file name and the path of the new file
Name(t) ==
    /\ th[t].pc = "name"
    /\ \E plan \in AddPlans(th[t].src, "", <<>>, UseDefaultFolder, GetAllFilenames) :
          th' = [th EXCEPT ![t].pc = "create", ![t].plan = plan]
    /\ UNCHANGED <<registryVars, last, m_AccessMutex, call>>

\* lines 200-233: the resource is created and put into m_Resources
Create(t) ==
    /\ th[t].pc = "create"
    /\ objs' = Put(objs, nextId, [path |-> th[t].plan.new_file_path,
                                   spn  |-> <<>>,
                                   mt   |-> "",
                                   type |-> th[t].plan.type])
    /\ m_Resources' = m_Resources \cup {nextId}
    /\ nextId' = nextId + 1
    /\ th' = [th EXCEPT ![t].pc = "index", ![t].id = nextId]
    /\ UNCHANGED <<m_Path2Resource, m_OPF, m_NCX, m_GrpToFold, m_FileIconCache,
                   watched, m_SuspendedWatchedFiles, disk, last, m_AccessMutex, call>>

\* lines 236-247: the path index, the media type, the short name, the icon
Index(t) ==
    /\ th[t].pc = "index"
    /\ m_Path2Resource' = Put(m_Path2Resource,
                              AddBookPath(<<>>, th[t].plan.new_file_path), th[t].id)
    /\ objs' = [objs EXCEPT ![th[t].id].mt = th[t].plan.mt,
                            ![th[t].id].spn = th[t].plan.filename]
    /\ m_FileIconCache' = m_FileIconCache \cup {th[t].plan.mt}
    /\ th' = [th EXCEPT ![t].pc = "unlock"]
    /\ UNCHANGED <<m_Resources, m_OPF, m_NCX, m_GrpToFold, watched,
                   m_SuspendedWatchedFiles, disk, nextId, last, m_AccessMutex, call>>

\* line 248: the locker goes out of scope
Unlock(t) ==
    /\ th[t].pc = "unlock"
    /\ m_AccessMutex' = 0
    /\ th' = [th EXCEPT ![t].pc = "copy"]
    /\ UNCHANGED <<registryVars, last, call>>

\* lines 251-257: QFile::copy
Copy(t) ==
    /\ th[t].pc = "copy"
    /\ disk' = QFileCopy(disk, th[t].src, th[t].plan.new_file_path)
    /\ th' = [th EXCEPT ![t].pc = "emit"]
    /\ UNCHANGED <<objs, m_Resources, m_Path2Resource, m_OPF, m_NCX, m_GrpToFold,
                   m_FileIconCache, watched, m_SuspendedWatchedFiles, nextId,
                   last, m_AccessMutex, call>>

Emit_Always(t) ==
    /\ th[t].pc = "emit"
    /\ last' = [NoCall EXCEPT !.op = "AddContentFileToFolder", !.src = th[t].src,
                              !.folderpath = UseDefaultFolder,
                              !.ids = <<th[t].id>>,
                              !.news = <<th[t].plan.new_file_path>>,
                              !.emitted = <<Signal("ResourceAdded", <<th[t].id>>, <<>>)>>]
    /\ th' = [th EXCEPT ![t] = IdleThread]
    /\ UNCHANGED <<registryVars, m_AccessMutex, call>>

\* lines 260-275: the signal, and the call returns
Emit(t) ==
    /\ th[t].pc = "emit"
    /\ last' = [NoCall EXCEPT !.op = "AddContentFileToFolder", !.src = th[t].src,
                              !.folderpath = UseDefaultFolder,
                              !.ids = <<th[t].id>>,
                              !.news = <<th[t].plan.new_file_path>>,
                              !.emitted = IF th[t].update_opf
                                          THEN <<Signal("ResourceAdded", <<th[t].id>>, <<>>)>>
                                          ELSE <<>>]
    /\ th' = [th EXCEPT ![t] = IdleThread]
    /\ UNCHANGED <<registryVars, m_AccessMutex, call>>

NextConc ==
    \/ /\ m_OPF = NULL
       /\ AddOPFToFolder("2.0", <<>>)
    \/ \E t \in Threads, src \in ThreadSources : Call(t, src, TRUE)
    \/ \E t \in Threads : Lock(t)
    \/ \E t \in Threads : Name(t)
    \/ \E t \in Threads : Create(t)
    \/ \E t \in Threads : Index(t)
    \/ \E t \in Threads : Unlock(t)
    \/ \E t \in Threads : Copy(t)
    \/ \E t \in Threads : Emit(t)

SpecConc == Init /\ [][NextConc]_vars

(***************************************************************************)
(* Properties of the registry                                              *)
(***************************************************************************)
Relocations == {"RenameTo", "MoveTo"}

BulkRelocations == {"BulkRenameResources", "BulkMoveResources"}

\* C1: in every reachable state no two distinct registered resources have
\* the same book path.
C1_UniqueBookPaths ==
    \A r1, r2 \in m_Resources : r1 # r2 => objs[r1].path # objs[r2].path

\* the file name a call proposes: that of its source without a leading '.'
DesiredName(fullfilepath) ==
    LET filename == Filename(fullfilepath.path)
    IN  IF Head(filename) = "." THEN Tail(filename) ELSE filename

\* C2: two calls of AddContentFileToFolder under way at the same time that
\* propose the same file name, with no book path given, register two
\* different book paths whose file names differ without regard to case.
C2_ConcurrentAddsDistinct ==
    \A t, u \in Threads :
        (/\ t # u
         /\ th[t].pc \in {"unlock", "copy", "emit"}
         /\ th[u].pc \in {"unlock", "copy", "emit"}
         /\ DesiredName(th[t].src) = DesiredName(th[u].src))
            => /\ objs[th[t].id].path # objs[th[u].id].path
               /\ ~EqualsNoCase(Filename(objs[th[t].id].path),
                                Filename(objs[th[u].id].path))

\* C5: after a registered resource is renamed, the lookup by its new book
\* path returns the resource it was before the rename, the throwing lookup by
\* its old book path throws ResourceDoesNotExist and the non-throwing one
\* returns null.
C5_RenameRoundTrip ==
    [][(last'.op = "RenameTo" /\ last'.oks = <<TRUE>>) =>
          \A r \in {last'.ids[1]} : \A old \in {objs[r].path} :
             \A new \in {last'.news[1]} :
                /\ r \in m_Resources
                /\ GetResourceByBookPathNoThrow(old) = r
                /\ new # old
                /\ objs'[r].path = new
                /\ GetResourceByBookPath(new)' = [threw |-> FALSE, resource |-> r]
                /\ GetResourceByBookPathNoThrow(new)' = r
                /\ GetResourceByBookPath(old)'.threw
                /\ GetResourceByBookPathNoThrow(old)' = NULL]_vars

\* a rename that succeeded, with other resources registered
C5_Witness ==
    /\ last.op = "RenameTo" /\ last.oks = <<TRUE>>
    /\ Cardinality(m_Resources) >= 2
    /\ GetResourceByBookPathNoThrow(last.news[1]) = last.ids[1]

\* C10: AddContentFileToFolder with a source file that does not exist throws
\* FileDoesNotExist and changes nothing: the resources, both indexes, the
\* group-to-folder map, the watched files, the icon cache and the files are
\* as before, and nothing is emitted.
C10_MissingSourceChangesNothing ==
    [][(last'.op = "AddContentFileToFolder" /\ ~last'.src.exists) =>
          /\ last'.result = "FileDoesNotExist"
          /\ last'.emitted = <<>>
          /\ last'.ids = <<>>
          /\ UNCHANGED registryVars]_vars

\* the call failed on a registry that holds resources
C10_Witness ==
    /\ last.op = "AddContentFileToFolder"
    /\ ~last.src.exists
    /\ last.result = "FileDoesNotExist"
    /\ Cardinality(m_Resources) >= 2

\* the bulk rename did for every item what the claim says of it; shared(i)
\* tells whether the old path of item i may stay in the index
BulkRenameOutcome(shared(_)) ==
    LET ids == last'.ids
        oks == last'.oks
    IN  /\ Len(oks) = Len(ids)
        /\ \A i \in 1..Len(ids) :
              \A r \in {ids[i]} : \A old \in {objs[r].path} :
                 IF oks[i]
                 THEN \A new \in {startingDir(old) \o last'.news[i]} :
                         /\ objs'[r].path = new
                         /\ GetResourceByBookPathNoThrow(new)' = r
                         /\ \/ GetResourceByBookPathNoThrow(old)' = NULL
                            \/ shared(i)
                 ELSE /\ objs'[r].path = old
                      /\ GetResourceByBookPathNoThrow(old)' = r

\* C4 as stated: after BulkRenameResources the path index maps the new path
\* of every renamed resource to it and holds none of the old paths of the
\* renamed resources; a rejected rename leaves its resource under its old
\* path and the other items are still renamed.
C4_BulkRenameNoOldPath ==
    [][last'.op = "BulkRenameResources" => BulkRenameOutcome(LAMBDA i : FALSE)]_vars

\* C4 amended: the index holds none of the old paths of the renamed
\* resources except an old path that another resource of the batch was
\* renamed to, which the index maps to that resource.
C4_BulkRename ==
    [][last'.op = "BulkRenameResources" =>
          BulkRenameOutcome(LAMBDA i :
              \E j \in 1..Len(last'.ids) : \E old \in {objs[last'.ids[i]].path} :
                 /\ j # i
                 /\ last'.oks[j]
                 /\ objs'[last'.ids[j]].path = old
                 /\ GetResourceByBookPathNoThrow(old)' = last'.ids[j])]_vars

\* a batch of two whose first rename was rejected and whose second succeeded
C4_Witness ==
    /\ last.op = "BulkRenameResources"
    /\ last.oks = <<FALSE, TRUE>>
    /\ GetResourceByBookPathNoThrow(objs[last.ids[2]].path) = last.ids[2]
    /\ Filename(objs[last.ids[2]].path) = last.news[2][1]

\* the short names are those the resolver computes over all book paths
ShortNamesCurrent ==
    LET table == ShortNameTable(GetAllBookPaths)
    IN  /\ table.status = "done"
        /\ \A r \in m_Resources :
              objs[r].spn = StripMarker(table.st.BookToSPN[objs[r].path])

C7_ResolverTerminates ==
    last.op \in Relocations \cup BulkRelocations => last.result # "loops"

(***************************************************************************)
(* Properties of GetUniqueFilenameVersion and of the short names           *)
(***************************************************************************)
\* C3: for every candidate and every list of registered file names the name
\* GetUniqueFilenameVersion returns equals no registered file name, compared
\* without regard to case.
C3_ReturnsUnregisteredName ==
    (call.fn = "GetUniqueFilenameVersion" /\ call.pc = "done")
        => ~ContainsNoCase(call.filenames, call.result)

\* C6: over pairwise distinct book paths, paths of different depth included,
\* updateShortPathNames gives pairwise distinct short names.
C6_ShortNamesDistinct ==
    (call.fn = "updateShortPathNames" /\ call.pc = "done") =>
        \A i, j \in 1..Len(call.bookpaths) :
            i # j => call.names[call.bookpaths[i]] # call.names[call.bookpaths[j]]

\* the last k segments of a book path
LastSegments(bookpath, k) == SubSeq(bookpath, Len(bookpath) - k + 1, Len(bookpath))

\* no other path of the list ends with the last k segments of bookpath
SuffixUnshared(bookpath, k, bookpaths) ==
    \A i \in 1..Len(bookpaths) :
        LET other == bookpaths[i]
        IN  other # bookpath =>
                ~(Len(other) >= k /\ LastSegments(other, k) = LastSegments(bookpath, k))

\* C9: every book path gets its last k segments for the smallest k at which
\* no other registered path shares them (the whole path when there is no
\* such k): the bare file name when no other path has it, Text/ch1.xhtml and
\* Other/ch1.xhtml for OEBPS/Text/ch1.xhtml and OEBPS/Other/ch1.xhtml.
C9_SmallestUnsharedSuffix ==
    (call.fn = "updateShortPathNames" /\ call.pc = "done") =>
        \A i \in 1..Len(call.bookpaths) :
            LET bookpath == call.bookpaths[i]
                ks       == {k \in 1..Len(bookpath) :
                                SuffixUnshared(bookpath, k, call.bookpaths)}
                k        == IF ks = {} THEN Len(bookpath)
                            ELSE CHOOSE m \in ks : \A n \in ks : m <= n
            IN  call.names[bookpath] = Join(LastSegments(bookpath, k))

\* C11: an add from a source file that exists and cannot be read fails with
\* an error and registers nothing: neither index has a new resource.
C11_UnreadableSourceChangesNothing ==
    [][(last'.op = "AddContentFileToFolder" /\ last'.src.exists
                                            /\ ~last'.src.readable) =>
          /\ last'.result # "ok"
          /\ m_Resources' = m_Resources
          /\ m_Path2Resource' = m_Path2Resource]_vars

\* the identifiers given out so far that are not in the identifier index
RemovedIdentifiers == (1..(nextId - 1)) \ m_Resources

\* the resources the path index maps a path to
IndexedResources == {m_Path2Resource[p] : p \in DOMAIN m_Path2Resource}

\* C12: a resource that has been removed stays removed: no later step puts
\* its identifier into the identifier index or makes the path index map a
\* path to it.
C12_NoResurrection ==
    [][\A r \in RemovedIdentifiers :
          /\ r \notin m_Resources'
          /\ r \notin IndexedResources']_vars

\* a resource was removed, and a later add registered a new resource under
\* the path a removed one had
C12_Witness ==
    /\ last.op = "AddContentFileToFolder"
    /\ last.ids # <<>>
    /\ \E r \in RemovedIdentifiers : r < last.ids[1]
    /\ objs[last.ids[1]].path = <<sOEBPS, sStyles, sCcss>>
    /\ Cardinality(m_Resources) >= 2

\* C13: the registry never holds more than one package document or more
\* than one navigation document, however often they are added.
C13_OnePackageOneNavigation ==
    /\ Cardinality({r \in m_Resources : objs[r].type = "OPFResource"}) <= 1
    /\ Cardinality({r \in m_Resources : objs[r].type = "NCXResource"}) <= 1

\* C14: after the removal of a resource, alone or in a batch, its identifier
\* is not in the identifier index, its book path is not in the path index
\* and its path is neither watched nor held aside; a Resume re-arms no path
\* but those of registered resources.
C14_RemovedEverywhere ==
    [][/\ (last'.op \in {"Delete", "BulkRemoveResources"}) =>
             \A i \in 1..Len(last'.ids) :
                \A r \in {last'.ids[i]} : \A p \in {objs[r].path} :
                   /\ r \notin m_Resources'
                   /\ p \notin DOMAIN m_Path2Resource'
                   /\ p \notin watched'
                   /\ p \notin Range(m_SuspendedWatchedFiles')
       /\ (last'.op = "ResumeWatchingResources") =>
             (watched' \ watched) \subseteq RegisteredPaths]_vars

\* a batch was removed that held a resource whose path was held aside
C14_Witness ==
    /\ last.op = "BulkRemoveResources"
    /\ Len(last.before.susp) > Len(m_SuspendedWatchedFiles)
    /\ m_SuspendedWatchedFiles # <<>>

\* C15: a bulk removal calls the package document once, for the whole batch
\* and before the first item is deleted, and emits ResourceRemoved for no
\* item: what follows the call is the deletion of the items, one by one.
C15_BulkRemoveNotifiesOnce ==
    (last.op = "BulkRemoveResources") =>
        /\ Len(last.emitted) = Len(last.ids) + 1
        /\ last.emitted[1] = Signal("OPF.BulkRemoveResources", last.ids, <<>>)
        /\ \A i \in 1..Len(last.ids) :
              last.emitted[i + 1] = Signal("Resource.Delete", <<last.ids[i]>>, <<>>)

\* a batch of two resources was removed
C15_Witness ==
    /\ last.op = "BulkRemoveResources"
    /\ Len(last.ids) >= 2
    /\ \A i \in 1..Len(last.ids) : last.ids[i] \notin m_Resources

\* the held-aside paths that exist on disk
HeldAsideOnDisk == {p \in Range(m_SuspendedWatchedFiles) : p \in disk}

\* what a Resume does: it adds the held-aside paths that exist to the watch
\* set and empties the held-aside list; with nothing held aside it does nothing
ResumeRearms ==
    (last'.op = "ResumeWatchingResources") =>
        /\ watched' = watched \cup HeldAsideOnDisk
        /\ m_SuspendedWatchedFiles' = <<>>
        /\ m_SuspendedWatchedFiles = <<>> => watched' = watched

\* C16 as stated: Resume re-arms exactly the held-aside paths that exist and
\* empties the held-aside list, does nothing when none is held aside, and a
\* Suspend followed at once by a Resume gives back the watch set the Suspend
\* found.
C16_SuspendResumeRestores ==
    [][/\ ResumeRearms
       /\ (last.op = "SuspendWatchingResources"
             /\ last'.op = "ResumeWatchingResources") =>
                watched' = last.before.watched]_vars

\* C16: Resume re-arms exactly the held-aside paths that exist and empties
\* the held-aside list, does nothing when none is held aside, and a Suspend
\* that found no path held aside, followed at once by a Resume, gives back
\* the watch set the Suspend found.
C16_ResumeRearms ==
    [][/\ ResumeRearms
       /\ (last.op = "SuspendWatchingResources" /\ last.before.susp = <<>>
             /\ last'.op = "ResumeWatchingResources") =>
                watched' = last.before.watched]_vars

\* a Resume found a held-aside path whose file was gone and one whose file
\* was there, and re-armed the second only
C16_Witness ==
    /\ last.op = "ResumeWatchingResources"
    /\ \E p \in Range(last.before.susp) : p \notin disk /\ p \notin watched
    /\ \E p \in Range(last.before.susp) : p \in disk /\ p \in watched
    /\ m_SuspendedWatchedFiles = <<>>

\* C17: a Suspend that finds paths held aside changes neither the held-aside
\* list nor the watch set.
C17_SuspendWhileSuspended ==
    [][(last'.op = "SuspendWatchingResources" /\ m_SuspendedWatchedFiles # <<>>) =>
          /\ m_SuspendedWatchedFiles' = m_SuspendedWatchedFiles
          /\ watched' = watched]_vars

\* a Suspend found paths held aside and paths watched, and left both
C17_Witness ==
    /\ last.op = "SuspendWatchingResources"
    /\ last.before.susp # <<>>
    /\ last.before.watched # {}
    /\ m_SuspendedWatchedFiles = last.before.susp
    /\ watched = last.before.watched

\* C18 as stated: while paths are held aside, from the Suspend that moved
\* them to the next Resume, the watch set is empty whatever is called in
\* between.
C18_NothingWatchedWhileSuspended ==
    m_SuspendedWatchedFiles # <<>> => watched = {}

\* C18: a Suspend that moves paths into the held-aside list leaves the watch
\* set empty, and while paths are held aside no step adds a path to the
\* watch set but WatchResourceFile and ResourceFileChanged (and the Resume
\* that ends it): an add, a rename, a move and a removal add none.
C18_OnlyWatchArmsWhileSuspended ==
    [][/\ (last'.op = "SuspendWatchingResources" /\ m_SuspendedWatchedFiles = <<>>
             /\ m_SuspendedWatchedFiles' # <<>>) => watched' = {}
       /\ (m_SuspendedWatchedFiles # <<>>
             /\ last'.op \notin {"WatchResourceFile", "ResourceFileChanged",
                                 "ResumeWatchingResources"}) =>
                watched' \subseteq watched]_vars

\* a resource was renamed while paths were held aside and nothing is watched
C18_Witness ==
    /\ last.op = "RenameTo"
    /\ last.oks = <<TRUE>>
    /\ m_SuspendedWatchedFiles # <<>>
    /\ watched = {}
    /\ objs[last.ids[1]].path \notin Range(m_SuspendedWatchedFiles)

\* what a call of WatchResourceFile leaves alone: the other paths of the
\* watch set, and the whole set when the path of the resource is in it
WatchFrame(r) ==
    /\ watched' \ {objs[r].path} = watched \ {objs[r].path}
    /\ objs[r].path \in watched => watched' = watched

\* C19 as stated: after Watch(resource) the path of the resource is watched
\* if and only if its type is one external editors may open, and a call for
\* a watched resource changes nothing.
C19_WatchIffEditable ==
    [][(last'.op = "WatchResourceFile") =>
          \A r \in {last'.ids[1]} :
             /\ (objs[r].path \in watched') <=> mayOpen(objs[r].type)
             /\ WatchFrame(r)]_vars

\* C19: after Watch(resource) the path of the resource is watched if and
\* only if its type is one external editors may open and its file exists,
\* and a call for a watched resource changes nothing.
C19_WatchIffEditableAndOnDisk ==
    [][(last'.op = "WatchResourceFile") =>
          \A r \in {last'.ids[1]} :
             /\ (objs[r].path \in watched') <=>
                    (mayOpen(objs[r].type) /\ objs[r].path \in disk)
             /\ WatchFrame(r)]_vars

\* a resource of a type editors may open, which was not watched, is watched
\* after the call, next to a resource of a type they may not open
C19_Witness ==
    /\ last.op = "WatchResourceFile"
    /\ objs[last.ids[1]].path \in watched \ last.before.watched
    /\ mayOpen(objs[last.ids[1]].type)
    /\ \E r \in m_Resources : ~mayOpen(objs[r].type) /\ objs[r].path \notin watched

\* C20: ResourceFileChanged for a path that does not exist when the wait is
\* over changes neither the watch set nor the held-aside list nor an index
\* and tells no resource that its file changed.
C20_StaleNotificationIgnored ==
    [][(last'.op = "ResourceFileChanged" /\ last'.bookpath \notin disk) =>
          /\ watched' = watched
          /\ m_SuspendedWatchedFiles' = m_SuspendedWatchedFiles
          /\ m_Resources' = m_Resources
          /\ m_Path2Resource' = m_Path2Resource
          /\ last'.emitted = <<>>]_vars

\* the notification was about the missing file of a registered resource
C20_Witness ==
    /\ last.op = "ResourceFileChanged"
    /\ last.bookpath \notin disk
    /\ last.bookpath \in RegisteredPaths
    /\ last.emitted = <<>>

(***************************************************************************)
(* Notifications of the watcher that are delivered late: the slot          *)
(* ResourceFileChanged runs from the event loop, so a notification about   *)
(* the file of the navigation document can arrive after                    *)
(* RemoveNCXFromFolder took the document out of the registry.              *)
(***************************************************************************)
NextNotify ==
    \/ \E src \in {f \in WatchSources : f.root = "ext" /\ f.readable} :
          AddContentFileToFolder(src, TRUE, "", <<>>, UseDefaultFolder)
    \/ /\ m_OPF = NULL
       /\ AddOPFToFolder("2.0", <<>>)
    \/ /\ m_NCX = NULL
       /\ DefaultBookPath("ncx", sTocNcx) \notin RegisteredPaths
       /\ AddNCXToFolder("2.0", <<>>, UseDefaultFolder)
    \/ RemoveNCXFromFolder
    \/ \E resource \in m_Resources \ {m_OPF} : WatchResourceFile(resource)
    \/ \E path \in NotifiedPaths : ResourceFileChanged(path)
    \* a notification queued before the removal is delivered after it
    \/ /\ last.op = "RemoveNCXFromFolder"
       /\ \E path \in last.before.watched \ watched : ResourceFileChanged(path)
    \/ \E path \in FilePaths : FileDeletedOnDisk(path)
    \/ \E path \in FilePaths : FileWrittenOnDisk(path)

SpecNotify == Init /\ [][NextNotify]_vars

\* the registered resources whose file is at the path
Owners(path) == {r \in m_Resources : objs[r].path = path}

\* C21: ResourceFileChanged for a path that exists leaves the path in the
\* watch set, watching it again if the watcher had dropped it, and tells
\* exactly the registered resource whose full path is the path that its file
\* changed, and no resource when none has that path.
C21_RearmsAndSignalsOwner ==
    [][(last'.op = "ResourceFileChanged" /\ last'.bookpath \in disk) =>
          \A path \in {last'.bookpath} :
             /\ path \in watched'
             /\ Len(last'.emitted) = Cardinality(Owners(path))
             /\ \A i \in 1..Len(last'.emitted) :
                   /\ last'.emitted[i].sig = "Resource.FileChangedOnDisk"
                   /\ last'.emitted[i].ids \in {<<r>> : r \in Owners(path)}]_vars

\* the watcher had dropped the file of a registered resource after an editor
\* replaced it; the call watches it again and tells its resource, while
\* another resource is registered
C21_Witness ==
    /\ last.op = "ResourceFileChanged"
    /\ last.bookpath \in disk
    /\ last.bookpath \in watched \ last.before.watched
    /\ Cardinality(m_Resources) >= 2
    /\ \E r \in m_Resources : /\ objs[r].path = last.bookpath
                               /\ r # Head(ResourceOrder)
                               /\ last.emitted = <<Signal("Resource.FileChangedOnDisk", <<r>>, <<>>)>>

\* C22: GetUniqueFilenameVersion returns the candidate unchanged whenever no
\* registered filename equals it without regard to case.
C22_FreeNameUnchanged ==
    (/\ call.fn = "GetUniqueFilenameVersion"
     /\ call.pc = "done"
     /\ \A i \in 1..Len(call.filenames) :
           toLower(call.filenames[i]) # toLower(call.filename))
        => call.result = call.filename

\* the candidate is free although two names are registered, one of them a
\* numbered version with the prefix of the candidate
C22_Witness ==
    /\ call.fn = "GetUniqueFilenameVersion"
    /\ call.pc = "done"
    /\ call.filename = sCcss
    /\ Len(call.filenames) >= 2
    /\ \E i \in 1..Len(call.filenames) : call.filenames[i] = sC0001css
    /\ \A i \in 1..Len(call.filenames) :
          toLower(call.filenames[i]) # toLower(call.filename)
    /\ call.result = call.filename

\* "." and the extension, nothing for a name without extension
DotExtension(ext) == IF ext = <<>> THEN <<>> ELSE <<".">> \o ext

\* the numeric suffixes d for which the name is prefix d "." ext, without
\* regard to case
NumericSuffixes(prefix, ext, name) ==
    {d \in {SubSeq(name, Len(prefix) + 1, Len(prefix) + n) :
              n \in 1..(Len(name) - Len(prefix))} :
        /\ \A i \in 1..Len(d) : IsDigit(d[i])
        /\ toLower(name) = toLower(prefix \o d \o DotExtension(ext))}

RECURSIVE StripZeros(_)
StripZeros(ds) ==
    IF Len(ds) > 1 /\ Head(ds) = "0" THEN StripZeros(Tail(ds)) ELSE ds

\* the number written a is less than the number written b
DigitsLess(a, b) ==
    LET x == StripZeros(a)
        y == StripZeros(b)
    IN  \/ Len(x) < Len(y)
        \/ /\ Len(x) = Len(y)
           /\ \E i \in 1..Len(x) :
                 /\ SubSeq(x, 1, i - 1) = SubSeq(y, 1, i - 1)
                 /\ DigitVal(x[i]) < DigitVal(y[i])

\* the number after the one written ds, in at least as many digits
RECURSIVE Successor(_)
Successor(ds) ==
    IF ds = <<>> THEN <<"1">>
    ELSE LET front == SubSeq(ds, 1, Len(ds) - 1)
             d     == DigitVal(ds[Len(ds)])
         IN  IF d = 9 THEN Successor(front) \o <<"0">>
             ELSE front \o <<DigitChars[d + 2]>>

\* C23: when the candidate collides, GetUniqueFilenameVersion returns the
\* prefix, then max + 1 in at least the digits of max, then the extension,
\* where max is the largest numeric suffix among the registered names of the
\* form prefix digits "." extension; it returns prefix 0001 extension when no
\* registered name has a numeric suffix.
C23_NextNumberedName ==
    (/\ call.fn = "GetUniqueFilenameVersion"
     /\ call.pc = "done"
     /\ \E i \in 1..Len(call.filenames) :
           toLower(call.filenames[i]) = toLower(call.filename))
        => LET prefix == RemoveTrailingDigits(baseName(call.filename))
               ext    == completeSuffix(call.filename)
               sufs   == UNION {NumericSuffixes(prefix, ext, call.filenames[i]) :
                                   i \in 1..Len(call.filenames)}
           IN  IF sufs = {}
               THEN call.result = prefix \o <<"0", "0", "0", "1">> \o DotExtension(ext)
               ELSE \E d \in sufs :
                       /\ \A o \in sufs : ~DigitsLess(d, o)
                       /\ call.result = prefix \o Successor(d) \o DotExtension(ext)

(***************************************************************************)
(* Where AddContentFileToFolder puts a file: callers that name a folder,   *)
(* the main folder itself or no folder.                                    *)
(***************************************************************************)
\* "" is the main folder itself
PlaceFolderArgs == FolderArgs \cup {<<>>}

NextPlace ==
    \/ \E src \in Sources, update_opf \in BOOLEAN, mimetype \in MimeTypes,
          bookpath \in {<<>>} \cup BookPathPool, folderpath \in PlaceFolderArgs :
          /\ PlausibleAdd(src, bookpath)
          /\ ObeysAdd(src, bookpath)
          /\ AddContentFileToFolder(src, update_opf, mimetype, bookpath, folderpath)
    \/ /\ m_OPF = NULL
       /\ AddOPFToFolder("2.0", <<>>)
    \/ \E resource \in m_Resources \ {m_OPF} : Delete(resource)

SpecPlace == Init /\ [][NextPlace]_vars

\* the call registered the resource id at the book path, in both indexes
RegisteredAt(k, id, bookpath) ==
    /\ id \in k.res
    /\ k.objs[id].path = bookpath
    /\ Value(k.p2r, bookpath, NULL) = id

\* the folder of the claim: the caller's when given, else the first folder
\* of the group of the file
PlaceFolder(src, mimetype, folderpath) ==
    IF folderpath = UseDefaultFolder
    THEN GetDefaultFolderForGroup(DetermineFileGroup(src, mimetype))
    ELSE folderpath

\* the name without the dot of a hidden file
VisibleName(filename) == IF Head(filename) = "." THEN Tail(filename) ELSE filename

NextEmit ==
    \/ /\ m_OPF = NULL
       /\ AddOPFToFolder("2.0", <<>>)
    \/ \E t \in Threads, src \in {f \in ThreadSources : f.path = <<sCcss>>},
          update_opf \in BOOLEAN : Call(t, src, update_opf)
    \/ \E t \in Threads : Lock(t)
    \/ \E t \in Threads : Name(t)
    \/ \E t \in Threads : Create(t)
    \/ \E t \in Threads : Index(t)
    \/ \E t \in Threads : Unlock(t)
    \/ \E t \in Threads : Copy(t)
    \/ \E t \in Threads : Emit(t)

SpecEmit == Init /\ [][NextEmit]_vars

\* the call of thread t returns in this step
Returns(t) == th[t].pc = "emit" /\ th'[t].pc = "idle"

\* C25: a successful AddContentFileToFolder emits ResourceAdded once, for the
\* new resource, when update_opf is set, and nothing when it is not; when it
\* emits, the resource is in m_Resources and in m_Path2Resource already.
C25_OneSignalAfterIndexing ==
    [][\A t \in Threads :
          Returns(t) =>
             \A id \in {th[t].id} :
                /\ last'.ids = <<id>>
                /\ last'.emitted = IF th[t].update_opf
                                   THEN <<Signal("ResourceAdded", <<id>>, <<>>)>>
                                   ELSE <<>>
                /\ id \in m_Resources
                /\ Value(m_Path2Resource, objs[id].path, NULL) = id]_vars

\* a call that asked for the signal has returned with it while a call that
\* suppresses it has its resource in both indexes and has not returned
C25_Witness ==
    /\ last.op = "AddContentFileToFolder"
    /\ last.emitted = <<Signal("ResourceAdded", last.ids, <<>>)>>
    /\ \E t \in Threads :
          /\ th[t].pc \in {"unlock", "copy", "emit"}
          /\ ~th[t].update_opf
          /\ th[t].id \in m_Resources

(***************************************************************************)
(* FolderKeeper::DetermineFileGroup on its own                             *)
(***************************************************************************)
sMetaInfCss == sMETAINF \o <<".">> \o sCss

sMyMetaInf == <<"m", "y", "-">> \o sMETAINF

sCz == <<"c", ".", "z">>

sCnoext == <<"c">>

\* files of META-INF, files whose name or folder has META-INF in it, and files
\* with a known, an unknown and no extension
GroupPathPool ==
    {<<sCcss>>, <<sOEBPS, sStyles, sCcss>>, <<sCcssUpper>>, <<sExml>>,
     <<sCz>>, <<sCnoext>>,
     <<sMETAINF, sExml>>, <<sMETAINF, sCcss>>,
     <<sOEBPS, sStyles, sMetaInfCss>>, <<sMyMetaInf, sCcss>>}

\* no media type, known ones and one MediaTypes does not know
GroupMediaTypes == {"", "text/css", "application/xml", OpfMediaType, "application/zzz"}

InitGroup ==
    /\ Fresh
    /\ \E root \in {"main", "ext"}, path \in GroupPathPool, mimetype \in GroupMediaTypes :
          call = [NoPureCall EXCEPT
                    !.fn = "DetermineFileGroup", !.pc = "call",
                    !.filepath = [root |-> root, path |-> path,
                                  exists |-> TRUE, readable |-> TRUE],
                    !.mimetype = mimetype]

DetermineFileGroupCall ==
    /\ call.fn = "DetermineFileGroup"
    /\ call.pc = "call"
    /\ call' = [call EXCEPT !.pc = "done",
                            !.group = DetermineFileGroup(call.filepath, call.mimetype)]
    /\ UNCHANGED <<registryVars, last, m_AccessMutex, th>>

SpecGroup == InitGroup /\ [][DetermineFileGroupCall]_vars

\* the file is in a folder named META-INF
UnderMetaInf(path) == \E i \in 1..(Len(path) - 1) : path[i] = sMETAINF

\* C26: DetermineFileGroup returns "other" exactly for the paths under the
\* META-INF directory, and not for a path that has the text META-INF
\* elsewhere.
C26_OtherExactlyUnderMetaInf ==
    (call.fn = "DetermineFileGroup" /\ call.pc = "done")
        => (call.group = "other" <=> UnderMetaInf(call.filepath.path))

\* the media type is one MediaTypes has a group for
KnownMediaType(mt) == mt # "" /\ GetGroupFromMediaType(mt, "") # ""

\* the media type of the extension of the file, "" when there is none
ExtensionMediaType(path) ==
    GetMediaTypeFromExtension(toLower(suffix(Filename(path))), "")

\* C27: for a path outside META-INF DetermineFileGroup returns the group of
\* the declared media type if that is known, otherwise the group of the
\* media type of the extension, otherwise Misc, and changes nothing of the
\* registry.
C27_GroupOfTypeElseExtensionElseMisc ==
    [][(/\ call.fn = "DetermineFileGroup"
        /\ call.pc = "call"
        /\ call'.pc = "done"
        /\ ~UnderMetaInf(call.filepath.path))
          => /\ call'.group =
                   IF KnownMediaType(call.mimetype)
                   THEN GetGroupFromMediaType(call.mimetype, "")
                   ELSE IF KnownMediaType(ExtensionMediaType(call.filepath.path))
                   THEN GetGroupFromMediaType(ExtensionMediaType(call.filepath.path), "")
                   ELSE "Misc"
             /\ UNCHANGED registryVars]_vars

(***************************************************************************)
(* FolderKeeper::SetGroupFolders and FolderKeeper::RefreshGroupFolders     *)
(***************************************************************************)
groupA == <<"Text", "Styles", "Images", "Fonts", "Audio", "Video", "Misc", "opf", "ncx">>

groupB == <<"Text", "Styles", "Images", "Fonts", "Audio", "Video", "Misc">>

\* the characters of a group name
GroupName(group) ==
    CASE group = "Text"   -> sText
      [] group = "Styles" -> sStyles
      [] group = "Images" -> sImages
      [] group = "Fonts"  -> sFonts
      [] group = "Audio"  -> sAudio
      [] group = "Video"  -> sVideo
      [] group = "Misc"   -> sMisc
      [] group = "opf"    -> <<"o", "p", "f">>
      [] group = "ncx"    -> <<"n", "c", "x">>
      [] OTHER            -> <<"o", "t", "h", "e", "r">>

\* bookpath.startsWith("META-INF")
StartsWithMetaInf(bookpath) ==
    LET s == Join(bookpath)
    IN  Len(s) >= Len(sMETAINF) /\ SubSeq(s, 1, Len(sMETAINF)) = sMETAINF

\* QStringList::indexOf, from 1
IndexOf(list, x) == CHOOSE i \in 1..Len(list) : list[i] = x /\ \A j \in 1..(i - 1) : list[j] # x

\* lines 878-896: the folders in use of each group and the number of files
\* in each, in the order the book paths show them
RECURSIVE WalkBookPaths(_, _, _)
WalkBookPaths(bookpaths, mtypes, acc) ==
    IF bookpaths = <<>> THEN acc
    ELSE LET bookpath  == Head(bookpaths)
             group     == GetGroupFromMediaType(Head(mtypes), "other")
             folderlst == Value(acc.group_folder, group, <<>>)
             countlst  == Value(acc.group_count, group, <<>>)
             sdir      == startingDir(bookpath)
             next ==
                 IF StartsWithMetaInf(bookpath) THEN acc
                 ELSE IF sdir \notin Range(folderlst)
                 THEN [group_folder |-> Put(acc.group_folder, group, Append(folderlst, sdir)),
                       group_count  |-> Put(acc.group_count, group, Append(countlst, 1))]
                 ELSE [group_folder |-> Put(acc.group_folder, group, folderlst),
                       group_count  |-> Put(acc.group_count, group,
                                            [countlst EXCEPT ![IndexOf(folderlst, sdir)] = @ + 1])]
         IN  WalkBookPaths(Tail(bookpaths), Tail(mtypes), next)

\* Utility::sortByCounts: the folders by falling count; the order of folders
\* of one count is the sort's
sortByCounts(folderlst, countlst) ==
    {q \in DistinctSeqs(Range(folderlst), Len(folderlst)) :
        /\ Len(q) = Len(folderlst)
        /\ \A i \in 1..(Len(q) - 1) :
              countlst[IndexOf(folderlst, q[i])] >= countlst[IndexOf(folderlst, q[i + 1])]}

\* Utility::longestCommonPath(dirlst, "/") followed by lines 920-921: the
\* folders all paths start with
RECURSIVE longestCommonPath(_)
longestCommonPath(dirlst) ==
    IF dirlst = {} THEN <<>>
    ELSE IF \E d \in dirlst : d = <<>> THEN <<>>
    ELSE IF \A d, e \in dirlst : Head(d) = Head(e)
    THEN <<Head(CHOOSE d \in dirlst : TRUE)>> \o longestCommonPath({Tail(d) : d \in dirlst})
    ELSE <<>>

\* lines 910-913: the folders a group has now that are not in the list
RECURSIVE AppendMissing(_, _)
AppendMissing(folderlst, current_folders) ==
    IF current_folders = <<>> THEN folderlst
    ELSE AppendMissing(IF Head(current_folders) \in Range(folderlst) THEN folderlst
                       ELSE Append(folderlst, Head(current_folders)),
                       Tail(current_folders))

\* lines 907-930 for the groups of groupA, on one outcome of the sort
RECURSIVE FillGroups(_, _, _, _, _)
FillGroups(groups, group_folder, update_only, commonbase, use_lower_case) ==
    IF groups = <<>> THEN group_folder
    ELSE LET group     == Head(groups)
             folderlst == Value(group_folder, group, <<>>)
             gname     == IF use_lower_case THEN toLower(GroupName(group))
                          ELSE GroupName(group)
             filled ==
                 IF update_only
                 THEN Put(group_folder, group, AppendMissing(folderlst, GetFoldersForGroup(group)))
                 ELSE IF folderlst = <<>>
                 THEN Put(group_folder, group, <<commonbase \o <<gname>>>>)
                 ELSE group_folder
         IN  FillGroups(Tail(groups), filled, update_only, commonbase, use_lower_case)

\* the maps m_GrpToFold can be given: one for each order the sort can leave
\* folders of equal count in
SetGroupFolders(bookpaths, mtypes, update_only) ==
    LET walk == WalkBookPaths(bookpaths, mtypes,
                              [group_folder |-> EmptyMap, group_count |-> EmptyMap])
        keys == DOMAIN walk.group_folder
        sorts == {f \in [keys -> UNION {sortByCounts(walk.group_folder[g], walk.group_count[g]) :
                                           g \in keys}] :
                     \A g \in keys :
                        f[g] \in sortByCounts(walk.group_folder[g], walk.group_count[g])}
    IN  {FillGroups(groupA, sorted, update_only,
                    longestCommonPath({sorted[g][1] : g \in keys}),
                    \E g \in keys \cap Range(groupB) :
                       ContainsText(Join(sorted[g][1]), toLower(GroupName(g))))
           : sorted \in sorts}

\* lines 951-961: the book paths and media types of the resources that are
\* not in META-INF
RefreshList ==
    SelectSeq(ResourceOrder, LAMBDA r : ~StartsWithMetaInf(objs[r].path))

RefreshGroupFolders_BackFills ==
    LET bookpaths == [i \in 1..Len(RefreshList) |-> objs[RefreshList[i]].path]
        mtypes    == [i \in 1..Len(RefreshList) |-> objs[RefreshList[i]].mt]
    IN  /\ Running
        /\ \E group_folder \in SetGroupFolders(bookpaths, mtypes, FALSE) :
              m_GrpToFold' = group_folder
        /\ last' = [NoCall EXCEPT !.op = "RefreshGroupFolders"]
        /\ UNCHANGED <<objs, m_Resources, m_Path2Resource, m_OPF, m_NCX,
                       m_FileIconCache, watched, m_SuspendedWatchedFiles, disk, nextId,
                       m_AccessMutex, th, call>>

RefreshGroupFolders ==
    LET bookpaths == [i \in 1..Len(RefreshList) |-> objs[RefreshList[i]].path]
        mtypes    == [i \in 1..Len(RefreshList) |-> objs[RefreshList[i]].mt]
    IN  /\ Running
        /\ \E group_folder \in SetGroupFolders(bookpaths, mtypes, TRUE) :
              m_GrpToFold' = group_folder
        /\ last' = [NoCall EXCEPT !.op = "RefreshGroupFolders"]
        /\ UNCHANGED <<objs, m_Resources, m_Path2Resource, m_OPF, m_NCX,
                       m_FileIconCache, watched, m_SuspendedWatchedFiles, disk, nextId,
                       m_AccessMutex, th, call>>

\* a stylesheet, and a file of META-INF unpacked into its place
FolderSources ==
    {[root |-> "ext", path |-> <<sCcss>>, exists |-> TRUE, readable |-> TRUE],
     [root |-> "main", path |-> MetaInfPath, exists |-> TRUE, readable |-> TRUE]}

\* callers that declare no media type or that of a package document
FolderMediaTypes == {"", OpfMediaType}

\* a book path in the main folder itself whose file name begins with META-INF
FolderBookPaths == {<<sMetaInfCss>>}

NextFolders ==
    \/ \E src \in FolderSources, mimetype \in FolderMediaTypes,
          bookpath \in {<<>>} \cup FolderBookPaths, folderpath \in FolderArgs :
          /\ src.root = "main" => (mimetype = "" /\ bookpath = <<>> /\ folderpath = UseDefaultFolder)
          /\ bookpath # <<>> => (mimetype = "" /\ folderpath = UseDefaultFolder)
          /\ ObeysAdd(src, bookpath)
          /\ AddContentFileToFolder(src, TRUE, mimetype, bookpath, folderpath)
    \/ /\ m_OPF = NULL
       /\ AddOPFToFolder("2.0", <<>>)
    \/ \E resource \in m_Resources \ {m_OPF} : Delete(resource)
    \/ RefreshGroupFolders

SpecFolders == Init /\ [][NextFolders]_vars

\* the group RefreshGroupFolders counts a resource in
GroupOf(r) == GetGroupFromMediaType(objs[r].mt, "other")

\* the registered resources of a group that are not in the folder META-INF
Observed(group) ==
    {r \in m_Resources : GroupOf(r) = group /\ ~UnderMetaInf(objs[r].path)}

\* the number of files of the group in the folder
FilesIn(group, folder) ==
    Cardinality({r \in Observed(group) : startingDir(objs[r].path) = folder})

AllGroups == Range(groupA) \cup {"other"}

\* C28: after RefreshGroupFolders every group with a registered resource
\* outside META-INF has a folder list that contains every folder with a file
\* of the group and begins with a folder that has the most files of the group.
C28_FoldersByCount ==
    [][(last'.op = "RefreshGroupFolders") =>
          \A group \in AllGroups :
             Observed(group) # {} =>
                \A folders \in {Value(m_GrpToFold', group, << <<>> >>)} :
                   /\ \A r \in Observed(group) : startingDir(objs[r].path) \in Range(folders)
                   /\ \A r \in Observed(group) :
                         FilesIn(group, folders[1]) >= FilesIn(group, startingDir(objs[r].path))]_vars

\* p is the beginning of the path d
IsPrefix(p, d) == Len(p) <= Len(d) /\ SubSeq(d, 1, Len(p)) = p

\* the longest path all the folders begin with
CommonBase(dirs) ==
    IF dirs = {} THEN <<>>
    ELSE LET d0  == CHOOSE d \in dirs : TRUE
             com == {n \in 0..Len(d0) : \A d \in dirs : IsPrefix(SubSeq(d0, 1, n), d)}
         IN  SubSeq(d0, 1, CHOOSE n \in com : \A m \in com : m <= n)

\* the groups with a registered resource outside META-INF
ObservedGroups == {g \in AllGroups : Observed(g) # {}}

\* C29 as stated: after RefreshGroupFolders every group without a file has
\* as its folder the common base path of the default folders of the other
\* groups followed by its name, in lower case when a folder in use has the
\* name of its group in lower case.
C29_EmptyGroupBackFilled ==
    [][(last'.op = "RefreshGroupFolders") =>
          \A group \in Range(groupA) \ ObservedGroups :
             \A base \in {CommonBase({Value(m_GrpToFold', g, << <<>> >>)[1] :
                                         g \in ObservedGroups})} :
                \A lower \in {\E g \in ObservedGroups \cap Range(groupB) :
                                  ContainsText(Join(Value(m_GrpToFold', g, << <<>> >>)[1]),
                                               toLower(GroupName(g)))} :
                   Value(m_GrpToFold', group, << <<>> >>)[1] =
                       base \o <<IF lower THEN toLower(GroupName(group))
                                 ELSE GroupName(group)>>]_vars

\* C29: after RefreshGroupFolders every group of Text, Styles, Images, Fonts,
\* Audio, Video, Misc, opf and ncx without a registered resource outside
\* META-INF has the folder list it had before the call.
C29_EmptyGroupKeepsFolders ==
    [][(last'.op = "RefreshGroupFolders") =>
          \A group \in Range(groupA) \ ObservedGroups :
             Value(m_GrpToFold', group, << <<>> >>) = GetFoldersForGroup(group)]_vars

\* the map was refreshed with a stylesheet in folder b and the package
\* document in OEBPS, which have no common base; Text, without a file, still
\* has OEBPS/Text
C29_Witness ==
    /\ last.op = "RefreshGroupFolders"
    /\ ObservedGroups = {"Styles", "opf"}
    /\ GetDefaultFolderForGroup("Styles") = <<sB>>
    /\ GetDefaultFolderForGroup("opf") = <<sOEBPS>>
    /\ GetFoldersForGroup("Text") = << <<sOEBPS, sText>> >>

\* C30: RemoveNCXFromFolder changes nothing when there is no navigation
\* document; otherwise m_NCX is null afterwards, the resource is in neither
\* index, and the resource is deleted.
C30_NavigationRemovedAndDeleted ==
    [][(last'.op = "RemoveNCXFromFolder") =>
          IF m_NCX = NULL
          THEN UNCHANGED registryVars
          ELSE \A id \in {m_NCX} :
                  \A path \in {objs[id].path} :
                     /\ m_NCX' = NULL
                     /\ id \notin m_Resources'
                     /\ path \notin DOMAIN m_Path2Resource'
                     /\ id \notin DOMAIN objs']_vars

\* ---------------------------------------------------------------------------
\* The container descriptor written by AddOPFToFolder
\* ---------------------------------------------------------------------------

sAmpB == <<"a", "&", "b">>

sPkgOpf == <<"p", ".", "o", "p", "f">>

\* explicit book paths a caller hands to AddOPFToFolder
OpfBookPaths == {<<sB, sContentOpf>>, <<sAmpB, sPkgOpf>>, <<sPkgOpf>>}

\* folder lists a caller hands to SetFoldersForGroup
GroupFolderLists == {<< <<>> >>, << <<sB>> >>, << <<sAmpB>>, <<sB>> >>}

SetFoldersForGroup(group, folders) ==
    /\ Running
    /\ m_GrpToFold' = Put(m_GrpToFold, group, folders)
    /\ last' = [NoCall EXCEPT !.op = "SetFoldersForGroup"]
    /\ UNCHANGED <<objs, m_Resources, m_Path2Resource, m_OPF, m_NCX,
                   m_FileIconCache, watched, m_SuspendedWatchedFiles, disk, nextId,
                   m_AccessMutex, th, call>>

NextContainer ==
    \/ \E group \in {"opf", "Styles"}, folders \in GroupFolderLists :
          SetFoldersForGroup(group, folders)
    \/ \E bookpath \in {<<>>} \cup OpfBookPaths :
          /\ m_OPF = NULL
          /\ AddOPFToFolder("2.0", bookpath)
    \/ \E src \in FolderSources :
          /\ src.root = "ext"
          /\ ObeysAdd(src, <<>>)
          /\ AddContentFileToFolder(src, TRUE, "", <<>>, UseDefaultFolder)
    \/ \E resource \in m_Resources \ {m_OPF} : Delete(resource)

SpecContainer == Init /\ [][NextContainer]_vars

\* the text that sits in the place of %1 in the written descriptor
RootFileReference(text) ==
    SubSeq(text, Len(sRootfileHead) + 1, Len(text) - Len(sRootfileTail))

\* C31: after AddOPFToFolder the root-file reference of the written container
\* descriptor is the book path of the package document: the explicit book path
\* when one is given, else the default folder of group opf followed by
\* /content.opf, and content.opf alone when that folder is empty.
C31_RootfileIsPackageBookPath ==
    [][(last'.op = "AddOPFToFolder") =>
          \A opfdir \in {GetDefaultFolderForGroup("opf")} :
             LET expected == IF last'.bookpath # <<>> THEN Join(last'.bookpath)
                             ELSE IF opfdir = <<>> THEN sContentOpf
                             ELSE Join(opfdir) \o <<"/">> \o sContentOpf
             IN  /\ last'.written # <<>>
                 /\ RootFileReference(last'.written) = expected
                 /\ Join(objs'[m_OPF'].path) = expected
                 /\ Value(m_Path2Resource', objs'[m_OPF'].path, NULL) = m_OPF']_vars

\* a package document added without a book path while group opf has the empty folder
C31_Witness ==
    /\ last.op = "AddOPFToFolder"
    /\ last.bookpath = <<>>
    /\ m_OPF # NULL
    /\ objs[m_OPF].path = <<sContentOpf>>
    /\ RootFileReference(last.written) = sContentOpf


\* ---------------------------------------------------------------------------
\* GetBookPathByPathEnd
\* ---------------------------------------------------------------------------

sAB == <<"a", "b">>

\* QString::endsWith(s, Qt::CaseInsensitive)
endsWith(str, s) ==
    /\ Len(s) <= Len(str)
    /\ toLower(SubSeq(str, Len(str) - Len(s) + 1, Len(str))) = toLower(s)

\* QString::split('/').last()
RECURSIVE SplitLast(_)
SplitLast(str) ==
    IF \A i \in 1..Len(str) : str[i] # "/" THEN str
    ELSE SplitLast(Tail(str))

\* the test a resource has to pass inside the loop
PathEndMatches(bookpath, path_end) ==
    /\ endsWith(bookpath, path_end)
    /\ toLower(SplitLast(bookpath)) = toLower(SplitLast(path_end))

\* m_Resources.values() walks a QHash: the first resource that passes the test
\* is any one that passes it
PathEndResults(path_end) ==
    LET found == {r \in m_Resources : PathEndMatches(Join(objs[r].path), path_end)}
    IN  IF found = {} THEN {<<>>} ELSE {Join(objs[r].path) : r \in found}

GetBookPathByPathEnd(path_end) ==
    /\ \E result \in PathEndResults(path_end) :
          call' = [NoPureCall EXCEPT !.fn = "GetBookPathByPathEnd",
                                     !.filename = path_end, !.result = result]
    /\ last' = [NoCall EXCEPT !.op = "GetBookPathByPathEnd"]
    /\ UNCHANGED <<objs, m_Resources, m_Path2Resource, m_OPF, m_NCX, m_GrpToFold,
                   m_FileIconCache, watched, m_SuspendedWatchedFiles, disk, nextId,
                   m_AccessMutex, th>>

PathEndBookPaths == {<<sAB, sCcss>>, <<sB, sCcssUpper>>, <<sCcss>>}

PathEnds == {<<>>, sCcss, <<"/">> \o sCcssUpper, sB \o <<"/">> \o sCcss,
             sAB \o <<"/">> \o sCcss, sDcss}

NextPathEnd ==
    \/ /\ m_OPF = NULL
       /\ AddOPFToFolder("2.0", <<>>)
    \/ \E src \in FolderSources, bookpath \in PathEndBookPaths :
          /\ src.root = "ext"
          /\ ObeysAdd(src, bookpath)
          /\ AddContentFileToFolder(src, TRUE, "", bookpath, UseDefaultFolder)
    \/ \E resource \in m_Resources \ {m_OPF} : Delete(resource)
    \/ \E path_end \in PathEnds : GetBookPathByPathEnd(path_end)

SpecPathEnd == Init /\ [][NextPathEnd]_vars

\* the path end is a run of whole segments at the end of the book path, an
\* optional leading slash included, compared without regard to case
OnSegmentBoundary(bookpath, path_end) ==
    /\ path_end # <<>>
    /\ endsWith(bookpath, path_end)
    /\ \/ Len(path_end) = Len(bookpath)
       \/ path_end[1] = "/"
       \/ bookpath[Len(bookpath) - Len(path_end)] = "/"

SegmentMatches(path_end) ==
    {Join(objs[r].path) : r \in {x \in m_Resources :
        /\ OnSegmentBoundary(Join(objs[x].path), path_end)
        /\ toLower(SplitLast(Join(objs[x].path))) = toLower(SplitLast(path_end))}}

\* C32: GetBookPathByPathEnd returns the empty string or the book path of a
\* registered resource that ends with the path end on a path-segment boundary
\* and has the same final filename, case ignored; it returns the empty string
\* exactly when no registered book path matches in that way.
C32_SegmentSuffixOrEmpty ==
    (last.op = "GetBookPathByPathEnd") =>
        /\ call.result # <<>> => call.result \in SegmentMatches(call.filename)
        /\ call.result = <<>> <=> SegmentMatches(call.filename) = {}


\* ---------------------------------------------------------------------------
\* The two indexes
\* ---------------------------------------------------------------------------

\* the resources the path index points to
Indexed == {m_Path2Resource[path] : path \in DOMAIN m_Path2Resource}

\* C33: whenever no call is inside the critical section of
\* AddContentFileToFolder, the identifier index and the path index hold the
\* same resources, the path index maps the current book path of every
\* registered resource to that resource, and no entry of the path index is
\* null or points to a resource the identifier index does not have.
C33_IndexesAgree ==
    (m_AccessMutex = 0) =>
        /\ Indexed = m_Resources
        /\ \A r \in m_Resources :
              /\ r \in DOMAIN objs
              /\ Value(m_Path2Resource, objs[r].path, NULL) = r
        /\ \A path \in DOMAIN m_Path2Resource :
              /\ m_Path2Resource[path] # NULL
              /\ m_Path2Resource[path] \in m_Resources


\* ---------------------------------------------------------------------------
\* The watch set and the registry
\* ---------------------------------------------------------------------------

HeldAside == {m_SuspendedWatchedFiles[i] : i \in 1..Len(m_SuspendedWatchedFiles)}

\* C34: in every reachable state every path of the active watch set and of
\* the held-aside set is the current full path of a registered resource, one
\* that Watch arms (of a type external editors may open), also after renames,
\* moves, removals and file-change notifications interleaved with Suspend and
\* Resume.
C34_WatchedAreRegistered ==
    \A path \in watched \cup HeldAside :
        \E r \in m_Resources :
            /\ objs[r].path = path
            /\ mayOpen(objs[r].type)


(***************************************************************************)
(* ImportHTML::GetBook                                                     *)
(*                                                                         *)
(* The importer's fields and the position of its threads are kept in the   *)
(* variable call. Thread 1 runs LoadMediaFiles, thread 2 LoadStyleFiles.   *)
(* The book is one of version 2.                                           *)
(***************************************************************************)
MaxImportResources == 5

sHxhtml == <<"h", ".", "x", "h", "t", "m", "l">>

sIpng == <<"i", ".", "p", "n", "g">>

sJpng == <<"j", ".", "p", "n", "g">>

ImportedFile(name, exists) ==
    [root |-> "ext", path |-> <<name>>, exists |-> exists, readable |-> exists]

\* the copy of m_FullFilePath that CreateHTMLResource writes to a TempFolder
HtmlFile == ImportedFile(sHxhtml, TRUE)

\* XhtmlDoc::GetPathsToMediaFiles(source): j.png is a broken link
MediaPathLists ==
    {<<>>, <<ImportedFile(sIpng, TRUE)>>,
     <<ImportedFile(sJpng, FALSE), ImportedFile(sIpng, TRUE)>>}

\* XhtmlDoc::GetPathsToStyleFiles(source): d.css is a broken link
StylePathLists ==
    {<<>>, <<ImportedFile(sCcss, TRUE)>>,
     <<ImportedFile(sDcss, FALSE), ImportedFile(sCcss, TRUE)>>}

\* a file named j.png that the book got from another folder before the import
ExistingFiles == {[root |-> "ext", path |-> <<sB, sJpng>>, exists |-> TRUE, readable |-> TRUE]}

IdleLoader == [pc |-> "idle", i |-> 1, file_paths |-> <<>>, newpath |-> <<>>,
               list |-> <<>>, updates |-> EmptyMap]

\* ImportHTML::ImportHTML
NoImport ==
    [fn |-> "ImportHTML", pc |-> "idle", m_IgnoreDuplicates |-> FALSE,
     mediapaths |-> <<>>, stylepaths |-> <<>>, m_AddedBookPaths |-> <<>>,
     new_book |-> FALSE, html |-> "todo", folder |-> "todo", html_path |-> <<>>,
     loader |-> [t \in Threads |-> IdleLoader], updates |-> EmptyMap,
     registered |-> <<>>, first_xhtml_bookpath |-> <<>>]

InitImport ==
    /\ Fresh
    /\ \E ignore_duplicates \in BOOLEAN, mediapaths \in MediaPathLists,
          stylepaths \in StylePathLists :
          call = [NoImport EXCEPT !.m_IgnoreDuplicates = ignore_duplicates,
                                  !.mediapaths = mediapaths,
                                  !.stylepaths = stylepaths]

\* what the book holds before the import: SetBook hands over a book with a
\* package document; a new book has none
ExistingBook ==
    /\ call.pc = "idle"
    /\ \/ /\ m_OPF = NULL
          /\ AddOPFToFolder("2.0", <<>>)
       \/ /\ m_NCX = NULL
          /\ AddNCXToFolder("2.0", <<>>, UseDefaultFolder)
       \/ \E src \in ExistingFiles :
             /\ Filename(src.path) \notin {Filename(path) : path \in RegisteredPaths}
             /\ AddContentFileToFolder(src, TRUE, "", <<>>, UseDefaultFolder)

importerVars == <<objs, m_Resources, m_Path2Resource, m_OPF, m_NCX, m_GrpToFold,
                  m_FileIconCache, watched, m_SuspendedWatchedFiles, disk, nextId,
                  m_AccessMutex, th>>

\* line 89: the call starts
GetBook ==
    /\ call.pc = "idle"
    /\ call' = [call EXCEPT !.pc = "opf", !.new_book = (m_OPF = NULL)]
    /\ last' = [NoCall EXCEPT !.op = "ImportHTML::GetBook"]
    /\ UNCHANGED importerVars

\* lines 93-94: if (!m_Book->GetConstOPF()) AddOPFToFolder(m_EpubVersion)
GetBookAddOPF ==
    /\ call.pc = "opf"
    /\ m_OPF = NULL
    /\ AddOPFToFolder("2.0", <<>>)

\* the statement after the if is reached without looking at the package document
GetBookArguments_NoOPF ==
    /\ call.pc = "opf"
    /\ call' = [call EXCEPT !.pc = "args"]
    /\ UNCHANGED <<importerVars, last>>

\* line 101: the arguments of UpdateFiles come next
GetBookArguments ==
    /\ call.pc = "opf"
    /\ m_OPF # NULL
    /\ call' = [call EXCEPT !.pc = "args"]
    /\ UNCHANGED <<importerVars, last>>

\* lines 172-181, called as the first argument of UpdateFiles (line 101); the
\* order in which the arguments of a call are evaluated is not specified
CreateHTMLResource ==
    /\ call.pc = "args"
    /\ call.html = "todo"
    /\ call.folder \in {"todo", "done"}
    /\ AddContentFileToFolderUpTo(MaxImportResources, HtmlFile, TRUE, "", <<>>,
                                  UseDefaultFolder)
    /\ call' = [call EXCEPT !.html = "done",
                            !.html_path = Join(last'.news[1]),
                            !.m_AddedBookPaths = Append(@, Join(last'.news[1])),
                            !.registered = Append(@, [src |-> HtmlFile,
                                                      path |-> Join(last'.news[1])])]
    /\ UNCHANGED <<m_AccessMutex, th>>

\* lines 252-258, called as the third argument of UpdateFiles: the two
\* loaders are started with QtConcurrent::run
LoadFolderStructure ==
    /\ call.pc = "args"
    /\ call.folder = "todo"
    /\ call' = [call EXCEPT
                  !.folder = "running",
                  !.loader = [t \in Threads |->
                                [IdleLoader EXCEPT
                                   !.pc = "next",
                                   !.file_paths = IF t = 1 THEN call.mediapaths
                                                  ELSE call.stylepaths]]]
    /\ UNCHANGED <<importerVars, last>>

file_path(t) == call.loader[t].file_paths[call.loader[t].i]

\* lines 282-291 and 317-326: the head of foreach, the lookup of the file
\* name and the branch for a duplicate; the lookup reads the registry without
\* the mutex
LoadFilesNext(t) ==
    /\ call.folder = "running"
    /\ call.loader[t].pc = "next"
    /\ IF call.loader[t].i > Len(call.loader[t].file_paths)
       THEN call' = [call EXCEPT !.loader[t].pc = "done"]
       ELSE \E existing_book_path \in PathEndResults(Filename(file_path(t).path)) :
               IF call.m_IgnoreDuplicates /\ existing_book_path # <<>>
               THEN call' = [call EXCEPT
                               !.loader[t].updates = Put(@, file_path(t), existing_book_path),
                               !.loader[t].i = @ + 1]
               ELSE call' = [call EXCEPT !.loader[t].pc = "add"]
    /\ UNCHANGED <<importerVars, last>>

\* the first missing file ends the loop
LoadFilesAdd_Abort(t) ==
    /\ call.folder = "running"
    /\ call.loader[t].pc = "add"
    /\ AddContentFileToFolderUpTo(MaxImportResources, file_path(t), TRUE, "", <<>>,
                                  UseDefaultFolder)
    /\ IF last'.result = "FileDoesNotExist"
       THEN call' = [call EXCEPT !.loader[t].pc = "done"]
       ELSE call' = [call EXCEPT !.loader[t].newpath = Join(last'.news[1]),
                                 !.loader[t].pc = "read",
                                 !.registered = Append(@, [src |-> file_path(t),
                                                           path |-> Join(last'.news[1])])]
    /\ UNCHANGED <<m_AccessMutex, th>>

\* lines 292-293 and 327-328, and the catch of lines 298-306 and 333-341
LoadFilesAdd(t) ==
    /\ call.folder = "running"
    /\ call.loader[t].pc = "add"
    /\ AddContentFileToFolderUpTo(MaxImportResources, file_path(t), TRUE, "", <<>>,
                                  UseDefaultFolder)
    /\ IF last'.result = "FileDoesNotExist"
       THEN call' = [call EXCEPT !.loader[t].updates = Put(@, file_path(t), <<>>),
                                 !.loader[t].i = @ + 1,
                                 !.loader[t].pc = "next"]
       ELSE call' = [call EXCEPT !.loader[t].newpath = Join(last'.news[1]),
                                 !.loader[t].pc = "read",
                                 !.registered = Append(@, [src |-> file_path(t),
                                                           path |-> Join(last'.news[1])])]
    /\ UNCHANGED <<m_AccessMutex, th>>

\* lines 294 and 329: m_AddedBookPaths << newpath, on a list both loaders
\* share without a lock; the append reads the list ...
LoadFilesAppendRead(t) ==
    /\ call.loader[t].pc = "read"
    /\ call' = [call EXCEPT !.loader[t].list = call.m_AddedBookPaths,
                            !.loader[t].pc = "write"]
    /\ UNCHANGED <<importerVars, last>>

\* ... and writes it back with the new entry; line 297 or 332 follows
LoadFilesAppendWrite(t) ==
    /\ call.loader[t].pc = "write"
    /\ call' = [call EXCEPT
                  !.m_AddedBookPaths = Append(call.loader[t].list, call.loader[t].newpath),
                  !.loader[t].updates = Put(@, file_path(t), call.loader[t].newpath),
                  !.loader[t].i = @ + 1,
                  !.loader[t].pc = "next"]
    /\ UNCHANGED <<importerVars, last>>

\* lines 259-268: sync.waitForFinished() and the two results put together
WaitForFinished ==
    /\ call.folder = "running"
    /\ \A t \in Threads : call.loader[t].pc = "done"
    /\ call' = [call EXCEPT
                  !.folder = "done",
                  !.updates = [f \in DOMAIN call.loader[1].updates
                                       \cup DOMAIN call.loader[2].updates |->
                                 IF f \in DOMAIN call.loader[2].updates
                                 THEN call.loader[2].updates[f]
                                 ELSE call.loader[1].updates[f]]]
    /\ UNCHANGED <<importerVars, last>>

\* lines 183-248: the links of the text are rewritten; the registry is read
UpdateFiles ==
    /\ call.pc = "args"
    /\ call.html = "done"
    /\ call.folder = "done"
    /\ call' = [call EXCEPT !.pc = "ncx"]
    /\ last' = [NoCall EXCEPT !.op = "ImportHTML::UpdateFiles"]
    /\ UNCHANGED importerVars

\* Utility::startingDir(bookpath) + "/toc.ncx"
NcxBesideOpf == SubSeq(objs[m_OPF].path, 1, Len(objs[m_OPF].path) - 1) \o <<sTocNcx>>

\* lines 115-127: a version 2 book without a navigation document gets one
GetBookAddNCX ==
    /\ call.pc = "ncx"
    /\ m_NCX = NULL
    /\ AddNCXToFolderUpTo(MaxImportResources, "2.0", NcxBesideOpf, UseDefaultFolder)
    /\ call' = [call EXCEPT !.pc = "returned",
                            !.first_xhtml_bookpath = call.m_AddedBookPaths[1]]
    /\ UNCHANGED <<m_AccessMutex, th>>

\* lines 116-117 and 128: the book has a navigation document
GetBookReturn ==
    /\ call.pc = "ncx"
    /\ m_NCX # NULL
    /\ call' = [call EXCEPT !.pc = "returned"]
    /\ UNCHANGED <<importerVars, last>>

NextImport ==
    \/ ExistingBook
    \/ GetBook
    \/ GetBookAddOPF
    \/ GetBookArguments
    \/ CreateHTMLResource
    \/ LoadFolderStructure
    \/ \E t \in Threads : LoadFilesNext(t)
    \/ \E t \in Threads : LoadFilesAdd(t)
    \/ \E t \in Threads : LoadFilesAppendRead(t)
    \/ \E t \in Threads : LoadFilesAppendWrite(t)
    \/ WaitForFinished
    \/ UpdateFiles
    \/ GetBookAddNCX
    \/ GetBookReturn

SpecImport == InitImport /\ [][NextImport]_vars

\* a call of AddContentFileToFolder comes next
CallsAddContentFileToFolder ==
    \/ call.pc = "args" /\ call.html = "todo" /\ call.folder \in {"todo", "done"}
    \/ \E t \in Threads : call.loader[t].pc = "add"

\* C35: in every execution of GetBook, on a new book too, the package
\* document is registered before any call of AddContentFileToFolder, so the
\* call never reads the epub version through a null m_OPF.
C35_PackageBeforeContent ==
    (call.pc # "idle" /\ CallsAddContentFileToFolder) =>
        /\ m_OPF # NULL
        /\ m_OPF \in m_Resources

\* the XHTML file is registered in a book that had no package document
C35_Witness ==
    /\ call.new_book
    /\ call.html = "done"
    /\ m_OPF # NULL


\* the files a loader has dealt with
Processed(t) ==
    {call.loader[t].file_paths[k] : k \in 1..(call.loader[t].i - 1)}

LinkOf(t, file) == Value(call.loader[t].updates, file, <<"?">>)

\* every file of the list is dealt with when the loader ends, and no missing
\* file is registered
LoadsWholeList ==
    /\ \A t \in Threads :
          call.loader[t].pc = "done" =>
              call.loader[t].i = Len(call.loader[t].file_paths) + 1
    /\ \A k \in 1..Len(call.registered) : call.registered[k].src.exists

Occurrences(list, x) == Cardinality({k \in 1..Len(list) : list[k] = x})

\* C37: after GetBook has returned, GetAddedBookPaths holds the book path of
\* every resource the import registered, each exactly once.
C37_AddedBookPathsComplete ==
    (call.pc = "returned") =>
        \A k \in 1..Len(call.registered) :
            Occurrences(call.m_AddedBookPaths, call.registered[k].path) = 1

\* C38: when GetBook creates the navigation document of a version 2 book,
\* the first entry of the list of added book paths, which the default
\* navigation content points to, is the book path of the imported XHTML file.
C38_FirstAddedIsXhtml ==
    (call.pc = "returned" /\ call.first_xhtml_bookpath # <<>>) =>
        call.first_xhtml_bookpath = call.html_path


(***************************************************************************)
(* PerformCSSUpdates::operator()                                           *)
(*                                                                         *)
(* A stylesheet is the list of the places the expression reference         *)
(* matches: @import rules and properties, each with its value written as   *)
(* url(...) or as a bare quoted string.                                    *)
(***************************************************************************)
MaxMatches == 3

\* the two expressions, named by what they match
UrlsExpression == {"url"}

ImportUrlsExpression == {"url", "quoted"}

References == [rule : {"@import", "property"}, form : {"url", "quoted"}]

Stylesheets == UNION {[1..n -> References] : n \in 0..MaxMatches}

\* lines 58-84: the expressions are built, the first match is looked for
InitCSS ==
    /\ Fresh
    /\ \E source \in Stylesheets :
          call = [fn |-> "PerformCSSUpdates", pc |-> "match", matches |-> source,
                  i |-> 1, urls |-> UrlsExpression, importurls |-> ImportUrlsExpression,
                  used |-> <<>>, found |-> <<>>]

\* lines 91-153: one round of the outer loop, for the match mo
ProcessMatch ==
    /\ call.pc = "match"
    /\ call.i <= Len(call.matches)
    /\ LET mo       == call.matches[call.i]
           swapped  == mo.rule = "@import"
           \* line 107: urls.swap(importurls)
           urls1       == IF swapped THEN call.importurls ELSE call.urls
           importurls1 == IF swapped THEN call.urls ELSE call.importurls
       IN  call' = [call EXCEPT !.urls = urls1,
                                !.importurls = importurls1,
                                !.used = Append(@, urls1),
                                \* line 109: urls.match(fragment, ...)
                                !.found = Append(@, mo.form \in urls1),
                                !.i = @ + 1]
    /\ UNCHANGED <<registryVars, last, m_AccessMutex, th>>

\* lines 85 and 153-155: no further match, the text is returned
ReturnResult ==
    /\ call.pc = "match"
    /\ call.i > Len(call.matches)
    /\ call' = [call EXCEPT !.pc = "returned"]
    /\ UNCHANGED <<registryVars, last, m_AccessMutex, th>>

NextCSS == ProcessMatch \/ ReturnResult

SpecCSS == InitCSS /\ [][NextCSS]_vars

\* C39: every @import rule is processed with the import expression (url(...)
\* or a bare quoted string) and every other matched property with the
\* expression for url(...) only, whatever the number and order of the rules
\* and properties of the stylesheet.
C39_ExpressionByRule ==
    \A k \in 1..Len(call.used) :
        call.used[k] = IF call.matches[k].rule = "@import"
                       THEN ImportUrlsExpression ELSE UrlsExpression


====
